---- MODULE Spec2Model ----
(***************************************************************************)
(* bsvalias-client-js: service location (DohSrvResolver, RFC 2782) and     *)
(* capability resolution (CapabilityResolver).                             *)
(*                                                                         *)
(* Strings are sequences of symbols.  A symbol is one character ("1", ".", *)
(* " ", "-") or an indivisible run of letters that the program never looks *)
(* inside ("www", "d", "t1", "bsvalias").  Concatenation is \o, so string  *)
(* templates, split(' '), parseInt and the trailing-dot regular            *)
(* expressions are computed on the text as the code computes them.         *)
(***************************************************************************)
EXTENDS Integers, Sequences, FiniteSets, TLC

VARIABLES
    pc,            \* position of the one call in flight
    resolverKind,  \* srvResolver of the CapabilityResolver called: "doh" | "other"
    domainName,    \* argument of the call
    dohResponse,   \* locateServices local `response` (QueryResponse)
    draws,         \* values of `randomNumber` computed by this locateServices call
    srvResult,     \* what locateServices returned / threw
    gets,          \* URLs handed to Request.get by this call, in order
    result,        \* what getCapabilitiesForDomain returned / threw
    randCalls,     \* number of Math.random() invocations so far (shared source)
    wkResponse,    \* how Request.get(wellKnownBsvAliasUrl) settled
    api,           \* the method called: "getCapabilitiesForDomain" |
                   \* "isCapabilitySupportedForDomain"
    capabilityCode,\* argument of isCapabilitySupportedForDomain
    supported,     \* what isCapabilitySupportedForDomain returned / threw
    calls,         \* the calls that run concurrently: call -> its own state
    randomLog,     \* the call that made each Math.random() invocation, in order
    clientPc,      \* where the call of a feature client stands
    clientCall,    \* its method and arguments
    lookups,       \* what its capability resolutions settled with, in order
    events,        \* the requests it made (resolutions, broadcast, GET, POST)
    locals,        \* its local variables that outlive an await
    clientResult   \* what it returned or threw

\* State of the calls that follow one another.
callVars == <<pc, resolverKind, domainName, dohResponse, draws, srvResult,
              gets, result, randCalls, wkResponse, api, capabilityCode, supported>>

\* State of the calls that run concurrently.
concurrentVars == <<calls, randomLog>>

\* State of a call of PaymentsClient or PkiClient.
clientVars == <<clientPc, clientCall, lookups, events, locals, clientResult>>

vars == <<callVars, concurrentVars, clientVars>>

----------------------------------------------------------------------------
(* Bounds of the model *)

\* longest Answer list a DoH reply carries
MaxAnswers == 4
\* longest services list a non-DoH SrvResolver returns
MaxServices == 2
\* no new call starts once the shared random source was read this often
MaxRandomCalls == 2
\* number of calls that run concurrently
MaxCalls == 2

----------------------------------------------------------------------------
(* Program constants *)

BSVALIAS_VERSION == <<"1", ".", "0">>
NOERROR == 0
NXDOMAIN == 3
SRV == 33
HOSTNAME == <<"cloudflare-dns", ".", "com">>
PATH == <<"/dns-query">>
DefaultPort == 443

----------------------------------------------------------------------------
(* Text *)

Digits == <<"0", "1", "2", "3", "4", "5", "6", "7", "8", "9">>

IsDigit(c) == \E i \in 1..10 : Digits[i] = c

DigitValue(c) == (CHOOSE i \in 1..10 : Digits[i] = c) - 1

\* Number -> decimal text, as a template literal `${n}` prints an integer.
RECURSIVE DecNat(_)
DecNat(n) == IF n < 10 THEN <<Digits[n + 1]>>
             ELSE DecNat(n \div 10) \o <<Digits[(n % 10) + 1]>>

NumberToString(n) == IF n < 0 THEN <<"-">> \o DecNat(0 - n) ELSE DecNat(n)

\* String.prototype.split(' ')
RECURSIVE SplitOnSpace(_)
SplitOnSpace(s) ==
    IF \A i \in 1..Len(s) : s[i] # " " THEN <<s>>
    ELSE LET k == CHOOSE i \in 1..Len(s) :
                     s[i] = " " /\ \A j \in 1..(i - 1) : s[j] # " "
         IN <<SubSeq(s, 1, k - 1)>> \o SplitOnSpace(SubSeq(s, k + 1, Len(s)))

\* A parseInt result: a number, or NaN.
Num(n) == [isNaN |-> FALSE, value |-> n]
NaN == [isNaN |-> TRUE, value |-> 0]

\* Value of the longest run of digits that starts s (0 for no digit).
RECURSIVE DigitsPrefixValue(_, _)
DigitsPrefixValue(s, acc) ==
    IF s = <<>> \/ ~IsDigit(Head(s)) THEN acc
    ELSE DigitsPrefixValue(Tail(s), 10 * acc + DigitValue(Head(s)))

\* Variant: a token without leading digits converts to 0, as Number('') does.
ParseIntOrZero(s) ==
    LET signed   == s # <<>> /\ Head(s) \in {"-", "+"}
        body     == IF signed THEN Tail(s) ELSE s
        negative == signed /\ Head(s) = "-"
    IN IF negative THEN Num(0 - DigitsPrefixValue(body, 0))
       ELSE Num(DigitsPrefixValue(body, 0))

\* parseInt(token, 10) on a token without white space: optional sign, then
\* the leading digits; NaN when no digit follows the sign.
ParseInt(s) ==
    LET signed   == s # <<>> /\ Head(s) \in {"-", "+"}
        body     == IF signed THEN Tail(s) ELSE s
        negative == signed /\ Head(s) = "-"
    IN IF body = <<>> \/ ~IsDigit(Head(body)) THEN NaN
       ELSE IF negative THEN Num(0 - DigitsPrefixValue(body, 0))
       ELSE Num(DigitsPrefixValue(body, 0))

EndsWithDot(s) == s # <<>> /\ s[Len(s)] = "."

\* domainName.replace(/\.$/, '')
ReplaceTrailingDot(s) == IF EndsWithDot(s) THEN SubSeq(s, 1, Len(s) - 1) ELSE s

\* Variant: the token is taken whole.
TargetToken(s) == s

\* /^(.*?)\.?$/.exec(token)[1]: the lazy group leaves one final dot to \.?
TargetRegexCapture(s) == IF EndsWithDot(s) THEN SubSeq(s, 1, Len(s) - 1) ELSE s

----------------------------------------------------------------------------
(* Errors and outcomes *)

Error(name, message) == [name |-> name, message |-> message]
NoError == Error("", <<>>)

\* Variant: the message given to the constructor is dropped.
DnsServerResponseErrorWithoutMessage(text) ==
    Error("DnsServerResponseError", <<"DnsServerResponseError">>)

DnsServerResponseError(text) == Error("DnsServerResponseError", <<text>>)

\* `nextSrvRecord!.target` / `service.host` read on null / undefined
TypeError == Error("TypeError", <<"Cannot read properties of undefined">>)

\* The library's error classes, all subclasses of BsvAliasClientError.
BsvAliasClientErrors ==
    {"UnexpectedBsvAliasNetworkError", "ConnectionTimeoutError",
     "DnsServerResponseError", "BsvAliasClientConfigurationError",
     "BsvAliasServerErrorResponse", "BsvAliasUnexpectedServerResponseError",
     "BsvAliasCapabilityNotSupportedError", "DNSSECNotEnabledError"}

\* Promise<SrvResolverResponse | null>, settled
SrvNull == [kind |-> "null", services |-> <<>>, isDomainSecure |-> FALSE,
            error |-> NoError]
SrvResponse(services, secure) ==
    [kind |-> "response", services |-> services, isDomainSecure |-> secure,
     error |-> NoError]
SrvThrow(e) == [kind |-> "throw", services |-> <<>>, isDomainSecure |-> FALSE,
                error |-> e]
SrvPending == [kind |-> "pending", services |-> <<>>, isDomainSecure |-> FALSE,
               error |-> NoError]

DomainService(host, port) == [host |-> host, port |-> port]

----------------------------------------------------------------------------
(* DohSrvResolver *)

QueryName(domain, service, protocol) ==
    <<"_", service, ".", "_", protocol, ".">> \o domain

DohUrl(queryName) ==
    <<"https://">> \o HOSTNAME \o PATH \o <<"?", "name", "=">> \o queryName
        \o <<"&", "type", "=", "SRV">>

Deserialised(record) == [ok |-> TRUE, record |-> record, error |-> NoError]
DeserialiseThrow(text) ==
    [ok |-> FALSE,
     record |-> [name |-> <<>>, TTL |-> 0, priority |-> 0, weight |-> 0,
                 port |-> 0, target |-> <<>>],
     error |-> DnsServerResponseError(text)]

deserialiseSrvAnswer(answer) ==
    LET dataElements == SplitOnSpace(answer.data) IN
    IF Len(dataElements) # 4 THEN DeserialiseThrow("Invalid answer")
    ELSE
    LET priority == ParseInt(dataElements[1])
        weight   == ParseInt(dataElements[2])
        port     == ParseInt(dataElements[3])
        target   == TargetRegexCapture(dataElements[4])
    IN IF priority.isNaN THEN
            DeserialiseThrow("Invalid priority: value could not be converted to a number")
       ELSE IF weight.isNaN THEN
            DeserialiseThrow("Invalid weight: value could not be converted to a number")
       ELSE IF port.isNaN THEN
            DeserialiseThrow("Invalid port: value could not be converted to a number")
       ELSE Deserialised(
            [name |-> answer.name, TTL |-> answer.TTL,
             priority |-> priority.value, weight |-> weight.value,
             port |-> port.value,
             target |-> IF target = <<>> THEN <<".">> ELSE target])

Map(f(_), s) == [i \in 1..Len(s) |-> f(s[i])]

RemoveAt(s, i) == SubSeq(s, 1, i - 1) \o SubSeq(s, i + 1, Len(s))

\* runningSum of the i-th record after the first forEach
RECURSIVE RunningSum(_, _)
RunningSum(records, i) ==
    IF i = 0 THEN 0 ELSE RunningSum(records, i - 1) + records[i].weight

\* The values Math.floor(Math.random() * sumAccumulator) can take, for
\* Math.random() anywhere in [0, 1).
RandomNumbers(sumAccumulator) ==
    IF sumAccumulator > 0 THEN 0..(sumAccumulator - 1)
    ELSE sumAccumulator..0

\* Index of the record the second forEach assigns to nextSrvRecord
\* (0: nextSrvRecord stays null).
SelectIndex(records, randomNumber) ==
    LET hits == {i \in 1..Len(records) : randomNumber <= RunningSum(records, i)}
    IN IF hits = {} THEN 0 ELSE CHOOSE i \in hits : \A j \in hits : i <= j

\* The loop takes a random number unless exactly one record is left.
OnlyOneRecordToProcess(recordsToProcess) == Len(recordsToProcess) = 1

ServiceOf(record) == DomainService(record.target, record.port)

Ordering(list, randoms, thrown) ==
    [list |-> list, randoms |-> randoms, thrown |-> thrown]

\* Every run of orderResourceListByWeight on recordsToOrder: the list built,
\* the random numbers taken, and whether the run ended in a TypeError
\* (no record selected).
RECURSIVE orderResourceListByWeight(_)
orderResourceListByWeight(recordsToProcess) ==
    IF Len(recordsToProcess) = 0 THEN {Ordering(<<>>, <<>>, FALSE)}
    ELSE IF OnlyOneRecordToProcess(recordsToProcess) THEN
        {Ordering(<<ServiceOf(recordsToProcess[1])>>, <<>>, FALSE)}
    ELSE
        LET sumAccumulator == RunningSum(recordsToProcess, Len(recordsToProcess))
        IN UNION {
            LET next == SelectIndex(recordsToProcess, randomNumber) IN
            IF next = 0 THEN {Ordering(<<>>, <<randomNumber>>, TRUE)}
            ELSE { Ordering(<<ServiceOf(recordsToProcess[next])>> \o o.list,
                            <<randomNumber>> \o o.randoms, o.thrown) :
                   o \in orderResourceListByWeight(RemoveAt(recordsToProcess, next)) }
            : randomNumber \in RandomNumbers(sumAccumulator) }

\* Array.prototype.sort with (a, b) => a.priority - b.priority (stable).
RECURSIVE InsertByPriority(_, _)
InsertByPriority(r, sorted) ==
    IF sorted = <<>> THEN <<r>>
    ELSE IF r.priority - Head(sorted).priority <= 0 THEN <<r>> \o sorted
    ELSE <<Head(sorted)>> \o InsertByPriority(r, Tail(sorted))

\* Variant: the records are left in the order of the Answer.
Unsorted(records) == records

RECURSIVE SortByPriority(_)
SortByPriority(records) ==
    IF records = <<>> THEN <<>>
    ELSE InsertByPriority(Head(records), SortByPriority(Tail(records)))

\* The lists handed to orderResourceListByWeight by the forEach over
\* sortedSrvRecords and by the call after it, in order.
RECURSIVE GroupByPriority(_, _, _)
GroupByPriority(rest, previousPriority, recordsToProcess) ==
    IF rest = <<>> THEN <<recordsToProcess>>
    ELSE IF Head(rest).priority # previousPriority THEN
        <<recordsToProcess>> \o
            GroupByPriority(Tail(rest), Head(rest).priority, <<Head(rest)>>)
    ELSE GroupByPriority(Tail(rest), previousPriority,
                         Append(recordsToProcess, Head(rest)))

PriorityGroups(sortedSrvRecords) ==
    IF sortedSrvRecords = <<>> THEN <<(<<>>)>>
    ELSE GroupByPriority(sortedSrvRecords, sortedSrvRecords[1].priority, <<>>)

\* sortedServices after the groups were ordered one after the other; a
\* TypeError in one group ends the call.
RECURSIVE OrderGroups(_)
OrderGroups(groups) ==
    IF groups = <<>> THEN {Ordering(<<>>, <<>>, FALSE)}
    ELSE UNION {
        IF first.thrown THEN {first}
        ELSE { Ordering(first.list \o more.list, first.randoms \o more.randoms,
                        more.thrown) : more \in OrderGroups(Tail(groups)) }
        : first \in orderResourceListByWeight(Head(groups)) }

IsSentinel(record) == record.target = <<".">>

\* Variant: abort only on a lone record whose target is the root.
ServiceNotSupportedWhenAlone(srvRecords) ==
    Len(srvRecords) = 1 /\ IsSentinel(srvRecords[1])

\* `serviceNotSupportedRecords.length === 1`
ServiceNotSupported(srvRecords) ==
    Len(SelectSeq(srvRecords, IsSentinel)) = 1

\* Variant: the type of the entry is not compared.
EchoesQuestionName(answer, question) == answer.name = question.name

EchoesQuestion(answer, question) ==
    answer.name = question.name /\ answer.type = question.type

\* Variant: a reply without Answer is required for "domain not found".
isDomainNonExistentAndBare(response) ==
    response.Status = NXDOMAIN /\ ~response.Answer.present

\* `response.Status === ErrorCodes.NXDOMAIN`
isDomainNonExistent(response) == response.Status = NXDOMAIN

\* (The grave accents of the two 'Question' messages are written as
\* apostrophes.)
\* One run of locateServices on the reply `response` to the query for
\* queryName: what it returns or throws, and the random numbers it took.
Located(outcome, randoms) == [outcome |-> outcome, randoms |-> randoms]

locateServices(queryName, response) ==
    IF isDomainNonExistent(response) THEN {Located(SrvNull, <<>>)}
    ELSE IF response.Status # NOERROR THEN
        {Located(SrvThrow(DnsServerResponseError("Error response sent by the server")), <<>>)}
    ELSE IF ~response.Question.present THEN
        {Located(SrvThrow(DnsServerResponseError("No 'Question' field found")), <<>>)}
    ELSE IF Len(response.Question.list) # 1 THEN
        {Located(SrvThrow(DnsServerResponseError("Expected only one 'Question' element")), <<>>)}
    ELSE
    LET question == response.Question.list[1] IN
    IF ~(question.name # <<>> /\ question.name = queryName) THEN
        {Located(SrvThrow(DnsServerResponseError("Invalid question name")), <<>>)}
    ELSE IF ~(question.type # 0 /\ question.type = SRV) THEN
        {Located(SrvThrow(DnsServerResponseError("Invalid question type")), <<>>)}
    ELSE IF ~response.Answer.present THEN {Located(SrvNull, <<>>)}
    ELSE
    LET retained == SelectSeq(response.Answer.list,
                              LAMBDA answer : EchoesQuestion(answer, question))
        parsed   == Map(deserialiseSrvAnswer, retained)
        failed   == {i \in 1..Len(parsed) : ~parsed[i].ok}
    IN
    IF failed # {} THEN
        {Located(SrvThrow(parsed[CHOOSE i \in failed : \A j \in failed : i <= j].error),
                 <<>>)}
    ELSE
    LET srvRecords == [i \in 1..Len(parsed) |-> parsed[i].record] IN
    IF Len(srvRecords) = 0 THEN
        {Located(SrvThrow(DnsServerResponseError("No valid answer found")), <<>>)}
    ELSE IF ServiceNotSupported(srvRecords) THEN {Located(SrvNull, <<>>)}
    ELSE
    LET sortedSrvRecords ==
            SortByPriority(SelectSeq(srvRecords, LAMBDA r : ~IsSentinel(r)))
    IN { IF o.thrown THEN Located(SrvThrow(TypeError), o.randoms)
         ELSE Located(SrvResponse(o.list, response.AD), o.randoms)
         : o \in OrderGroups(PriorityGroups(sortedSrvRecords)) }

----------------------------------------------------------------------------
(* CapabilityResolver *)

\* Variant: the names are compared as given.
domainsAreEqualExactly(domainName1, domainName2) == domainName1 = domainName2

domainsAreEqual(domainName1, domainName2) ==
    ReplaceTrailingDot(domainName1) = ReplaceTrailingDot(domainName2)

WellKnownUrl(targetDomainName, targetPort) ==
    <<"https://">> \o targetDomainName \o <<":">> \o NumberToString(targetPort)
        \o <<"/.well-known/bsvalias">>

\* Variant: the message does not interpolate the target.
DNSSECNotEnabledErrorUnnamed(targetDomainName) ==
    Error("DNSSECNotEnabledError", <<"DNSSEC not enabled on domain ">>)

DNSSECNotEnabledError(targetDomainName) ==
    Error("DNSSECNotEnabledError",
          <<"DNSSEC not enabled on domain ">> \o targetDomainName)

\* Variant: the last entry of the list is taken.
LastService(services) == services[Len(services)]

\* `srvResolverResponse.services[0]` of a non-null response
FirstService(services) == services[1]

\* Variant: the port of an unauthenticated response is not taken.
TargetOfTrustedPort(domain, srv) ==
    IF srv.kind = "response" THEN
        [host |-> FirstService(srv.services).host,
         port |-> IF srv.isDomainSecure THEN FirstService(srv.services).port
                  ELSE DefaultPort,
         isSecure |-> srv.isDomainSecure]
    ELSE [host |-> domain, port |-> DefaultPort, isSecure |-> FALSE]

\* The target the security test is applied to: (host, port, isSecure)
\* after the `if (srvResolverResponse !== null)` block.
Target(domain, srv) ==
    IF srv.kind = "response" THEN
        [host |-> FirstService(srv.services).host,
         port |-> FirstService(srv.services).port,
         isSecure |-> srv.isDomainSecure]
    ELSE [host |-> domain, port |-> DefaultPort, isSecure |-> FALSE]

\* Condition of the `isSecure = true` override.
SameDomainTarget(targetDomainName, domain) ==
    \/ domainsAreEqual(targetDomainName, domain)
    \/ domainsAreEqual(targetDomainName, <<"www", ".">> \o domain)

\* getWellKnownBaseUrl after locateServices settled with srv: the URL it
\* returns or the error it throws.
Url(url) == [ok |-> TRUE, url |-> url, error |-> NoError]
UrlThrow(e) == [ok |-> FALSE, url |-> <<>>, error |-> e]

\* Variant: a failed lookup falls back to the domain itself.
getWellKnownBaseUrlOrDefault(domain, srv) ==
    IF srv.kind = "throw" THEN Url(WellKnownUrl(domain, DefaultPort))
    ELSE IF srv.kind = "response" /\ srv.services = <<>> THEN UrlThrow(TypeError)
    ELSE
    LET target   == Target(domain, srv)
        isSecure == IF SameDomainTarget(target.host, domain) THEN TRUE
                    ELSE target.isSecure
    IN IF ~isSecure THEN UrlThrow(DNSSECNotEnabledError(target.host))
       ELSE Url(WellKnownUrl(target.host, target.port))

\* Variant: the `if (!isSecure)` test is missing.
getWellKnownBaseUrlUnchecked(domain, srv) ==
    IF srv.kind = "throw" THEN UrlThrow(srv.error)
    ELSE IF srv.kind = "response" /\ srv.services = <<>> THEN UrlThrow(TypeError)
    ELSE LET target == Target(domain, srv)
         IN Url(WellKnownUrl(target.host, target.port))

getWellKnownBaseUrl(domain, srv) ==
    IF srv.kind = "throw" THEN UrlThrow(srv.error)
    ELSE IF srv.kind = "response" /\ srv.services = <<>> THEN UrlThrow(TypeError)
    ELSE
    LET target   == Target(domain, srv)
        isSecure == IF SameDomainTarget(target.host, domain) THEN TRUE
                    ELSE target.isSecure
    IN IF ~isSecure THEN UrlThrow(DNSSECNotEnabledError(target.host))
       ELSE Url(WellKnownUrl(target.host, target.port))

\* The value of `response.capabilities`: an object with its own entries
\* (pairs <<key, JSON text of the value>>), or null.
JsObject(entries) == [isNull |-> FALSE, entries |-> entries]
JsNull == [isNull |-> TRUE, entries |-> {}]
\* Stands where there is no value (undefined, or not an object).
NoObject == JsObject({})

\* Settled result of getCapabilitiesForDomain.
NoResult == [kind |-> "none", capabilities |-> NoObject, error |-> NoError]
Returned(capabilities) ==
    [kind |-> "capabilities", capabilities |-> capabilities, error |-> NoError]
Thrown(e) == [kind |-> "throw", capabilities |-> NoObject, error |-> e]

\* How the second Request.get settled.
NoWkResponse ==
    [kind |-> "none",
     document |-> [bsvalias |-> [type |-> "undefined", value |-> <<>>],
                   capabilities |-> [type |-> "undefined", value |-> NoObject]],
     error |-> NoError]
WkDocument(document) == [kind |-> "document", document |-> document, error |-> NoError]
WkThrow(e) == [kind |-> "throw", document |-> NoWkResponse.document, error |-> e]

\* Settled result of isCapabilitySupportedForDomain.
NoCode == ""
NotSupportedYet == [kind |-> "none", value |-> FALSE, error |-> NoError]
SupportedIs(value) == [kind |-> "boolean", value |-> value, error |-> NoError]
SupportedThrow(e) == [kind |-> "throw", value |-> FALSE, error |-> e]

\* Properties every object inherits from Object.prototype.
ObjectPrototypeKeys ==
    {"constructor", "toString", "toLocaleString", "valueOf", "hasOwnProperty",
     "isPrototypeOf", "propertyIsEnumerable", "__proto__"}

\* `capabilities[capabilityCode] !== undefined` on an object: JSON carries
\* no undefined value, so an own key is defined; a key that is not an own
\* key is looked up in Object.prototype.
IsDefinedProperty(capabilities, code) ==
    \/ \E entry \in capabilities.entries : entry[1] = code
    \/ code \in ObjectPrototypeKeys

\* isCapabilitySupportedForDomain after getCapabilitiesForDomain settled.
isCapabilitySupportedForDomain(settled, code) ==
    IF settled.kind = "throw" THEN SupportedThrow(settled.error)
    ELSE IF settled.capabilities.isNull THEN SupportedThrow(TypeError)
    ELSE SupportedIs(IsDefinedProperty(settled.capabilities, code))

\* The checks of getCapabilitiesForDomain on the well-known document.
\* A document field is [type, value]: type is what `typeof` yields.
CheckDocument(response) ==
    IF response.capabilities.type # "object" THEN
        Thrown(Error("BsvAliasUnexpectedServerResponseError",
                     <<"No capabilities returned">>))
    ELSE IF ~(response.bsvalias.type = "string"
              /\ response.bsvalias.value = BSVALIAS_VERSION) THEN
        Thrown(Error("BsvAliasUnexpectedServerResponseError",
                     <<"Unsupported BSV alias version">>))
    ELSE Returned(response.capabilities.value)

----------------------------------------------------------------------------
(* Inputs: arguments, DNS-over-HTTPS replies, other resolvers, documents *)

Domains == {<<"d">>, <<"d", ".">>}

SrvData(priority, weight, port, target) ==
    NumberToString(priority) \o <<" ">> \o NumberToString(weight) \o <<" ">>
        \o NumberToString(port) \o <<" ">> \o target

Answer(name, type, data) == [name |-> name, type |-> type, TTL |-> 299, data |-> data]

\* Data of well-formed SRV records: two priorities, weights that differ,
\* a weight of zero and a negative one (parseInt takes the sign), two
\* ports, targets inside and outside the queried domain, with and without
\* the root dot, and the root target in both priorities.
WellFormedData ==
    {SrvData(7, 3, 443, <<"t1">>),
     SrvData(7, 7, 443, <<"t2", ".">>),
     SrvData(7, -5, 443, <<"t4">>),
     SrvData(10, 0, 8443, <<"d">>),
     SrvData(10, 0, 443, <<"www", ".", "d">>),
     SrvData(10, 2, 443, <<"t3">>),
     SrvData(10, 10, 443, <<".">>),
     SrvData(7, 10, 443, <<".">>)}

WellFormedAnswers(queryName) == {Answer(queryName, SRV, d) : d \in WellFormedData}

\* Entries that do not echo the question, entries that do and whose data
\* is malformed in one field or in several, and one whose first token only
\* starts with a numeral.
OtherAnswers(queryName) ==
    {Answer(<<"d">>, SRV, <<"some", " ", "data">>),
     Answer(queryName, 1, SrvData(10, 10, 443, <<"t1">>)),
     Answer(queryName, SRV, <<"only", " ", "three", " ", "words">>),
     Answer(queryName, SRV, <<"x", " ", "1", "0", " ", "4", "4", "3", " ", "t1">>),
     Answer(queryName, SRV, <<"1", "0", " ", "x", " ", "4", "4", "3", " ", "t1">>),
     Answer(queryName, SRV, <<"1", "0", " ", "1", "0", " ", "x", " ", "t1">>),
     Answer(queryName, SRV, <<"x", " ", "x", " ", "x", " ", "t1">>),
     Answer(queryName, SRV, <<"1", "0", " ", "x", " ", "x", " ", "t1">>),
     Answer(queryName, SRV, <<"1", "x", " ", "1", "0", " ", "4", "4", "3", " ", "t5">>)}

Injective(s) == \A i, j \in 1..Len(s) : s[i] = s[j] => i = j

SeqsUpTo(S, n) == UNION {[1..k -> S] : k \in 0..n}

InsertAt(s, i, x) == SubSeq(s, 1, i - 1) \o <<x>> \o SubSeq(s, i, Len(s))

\* Answer lists: up to MaxAnswers distinct well-formed records in any
\* order, and one of the other entries alone, before or after one
\* well-formed record.
AnswerLists(queryName) ==
    LET plain == {l \in SeqsUpTo(WellFormedAnswers(queryName), MaxAnswers) :
                      Injective(l)}
    IN plain \cup
       UNION {{InsertAt(l, i, x) : i \in 1..(Len(l) + 1), x \in OtherAnswers(queryName)}
              : l \in {m \in plain : Len(m) <= 1}}

Present(list) == [present |-> TRUE, list |-> list]
Absent == [present |-> FALSE, list |-> <<>>]

Question(name, type) == [name |-> name, type |-> type]

QueryResponse(status, ad, question, answer) ==
    [Status |-> status, AD |-> ad, Question |-> question, Answer |-> answer]

\* Value of `response` while no reply was received.
NoResponse == QueryResponse(-1, FALSE, Absent, Absent)

\* Question sections other than the exact echo of the query.
OddQuestions(queryName) ==
    {Absent, Present(<<>>),
     Present(<<Question(queryName, SRV), Question(<<"another element">>, SRV)>>),
     Present(<<Question(<<"invalid name">>, SRV)>>),
     Present(<<Question(<<>>, SRV)>>),
     Present(<<Question(queryName, 32)>>),
     Present(<<Question(queryName, 0)>>)}

\* Answer sections sent along with an error status or an odd Question.
FewAnswers(queryName) ==
    {Absent, Present(<<>>),
     Present(<<Answer(queryName, SRV, SrvData(10, 10, 443, <<"t1">>))>>),
     Present(<<Answer(queryName, SRV, SrvData(10, 10, 443, <<".">>))>>),
     Present(<<Answer(queryName, SRV, <<"only", " ", "three", " ", "words">>)>>)}

DohResponses(queryName) ==
    LET echo == Present(<<Question(queryName, SRV)>>) IN
    {QueryResponse(NOERROR, ad, echo, a) :
        ad \in BOOLEAN,
        a \in {Absent} \cup {Present(l) : l \in AnswerLists(queryName)}}
    \cup
    {QueryResponse(st, ad, q, a) :
        st \in {NXDOMAIN, 2}, ad \in BOOLEAN,
        q \in {echo} \cup OddQuestions(queryName), a \in FewAnswers(queryName)}
    \cup
    {QueryResponse(NOERROR, ad, q, a) :
        ad \in BOOLEAN, q \in OddQuestions(queryName), a \in FewAnswers(queryName)}

\* What Request.get throws when the round trip fails.
TransportErrors ==
    {Error("ConnectionTimeoutError", <<"Connection timeout">>),
     Error("BsvAliasServerErrorResponse",
           <<"BsvAlias service responded with status: ", "5", "0", "0">>)}

\* Outcomes of an SrvResolver other than DohSrvResolver.
OtherHosts(domain) ==
    {domain, domain \o <<".">>, <<"www", ".">> \o domain, <<"t1">>, <<"t1", ".">>}

OtherServices(domain) ==
    {DomainService(h, p) : h \in OtherHosts(domain), p \in {443, 8443}}

OtherResolverOutcomes(domain) ==
    {SrvNull, SrvThrow(Error("Error", <<"lookup failed">>))}
    \cup {SrvResponse(l, secure) :
            l \in SeqsUpTo(OtherServices(domain), MaxServices),
            secure \in BOOLEAN}

\* Outcomes of the SrvResolver behind isCapabilitySupportedForDomain: null,
\* a failure, or one service.
OneServiceOutcomes(domain) ==
    {SrvNull, SrvThrow(Error("Error", <<"lookup failed">>))}
    \cup {SrvResponse(<<service>>, secure) :
            service \in OtherServices(domain), secure \in BOOLEAN}

\* JSON values of the well-known document's two fields.
Field(type, value) == [type |-> type, value |-> value]
UndefinedText == Field("undefined", <<>>)
UndefinedObject == Field("undefined", NoObject)

\* Capability maps: empty, and one with a truthy value and the falsy values
\* false, 0, "" and null (values are written as their JSON text).
CapabilityMaps ==
    {{}, {<<"pki", "\"https://bsvalias.example.org/{alias}@{domain.tld}/id\"">>,
          <<"6745385c3fc0", "false">>, <<"c0", "0">>, <<"c1", "\"\"">>,
          <<"c2", "null">>}}

Document(version, capabilities) ==
    [bsvalias |-> version, capabilities |-> capabilities]

\* Documents: with the right version, capabilities an object, null (for
\* which typeof yields "object"), a string, or missing; with a wrong
\* version, an object or null; without version, an object.
Documents ==
    LET full == CHOOSE m \in CapabilityMaps : m # {} IN
    {Document(Field("string", BSVALIAS_VERSION), c) :
        c \in {Field("object", JsObject(m)) : m \in CapabilityMaps}
              \cup {Field("object", JsNull), Field("string", NoObject),
                    UndefinedObject}}
    \cup {Document(Field("string", <<"2", ".", "0">>), c) :
            c \in {Field("object", JsObject(full)), Field("object", JsNull)}}
    \cup {Document(UndefinedText, Field("object", JsObject(full)))}

\* Arguments of isCapabilitySupportedForDomain: keys of the maps, a key of
\* no map, and a name every object inherits.
CapabilityCodes == {"pki", "6745385c3fc0", "c0", "c1", "c2", "absent", "toString"}

----------------------------------------------------------------------------
(* Feature clients: values, arguments and endpoint replies *)

P2P_PAYMENT_DESTINATION_BRFC == "2a40af698840"
P2P_TRANSACTIONS_BRFC == "5f1323cddf31"
BASIC_PAYMENT_RESOLUTION_BRFC == "paymentDestination"
SENDER_VALIDATION_BRFC == "6745385c3fc0"
VERIFY_PUBLIC_KEY_OWNER_BRFC == "a9f510c16bde"

\* A JavaScript value as the clients test it: what typeof yields, and the
\* text, truth value or number it is.
JsUndefined == [type |-> "undefined", text |-> <<>>, bool |-> FALSE, num |-> 0]
JsString(text) == [type |-> "string", text |-> text, bool |-> FALSE, num |-> 0]
JsBoolean(bool) == [type |-> "boolean", text |-> <<>>, bool |-> bool, num |-> 0]
JsNumber(num) == [type |-> "number", text |-> <<>>, bool |-> FALSE, num |-> num]

\* `capabilities[key]` for a key that is no name of Object.prototype.
GetProperty(capabilities, key) ==
    IF \E entry \in capabilities.entries : entry[1] = key
    THEN (CHOOSE entry \in capabilities.entries : entry[1] = key)[2]
    ELSE JsUndefined

\* String.prototype.split('@')
RECURSIVE SplitOnAt(_)
SplitOnAt(s) ==
    IF \A i \in 1..Len(s) : s[i] # "@" THEN <<s>>
    ELSE LET k == CHOOSE i \in 1..Len(s) :
                      s[i] = "@" /\ \A j \in 1..(i - 1) : s[j] # "@"
         IN <<SubSeq(s, 1, k - 1)>> \o SplitOnAt(SubSeq(s, k + 1, Len(s)))

\* `const [alias, domainName] = handle.split('@')`: a missing part is
\* undefined.
HandleParts(handle) ==
    LET parts == SplitOnAt(handle) IN
    [alias |-> parts[1],
     domainName |-> IF Len(parts) >= 2 THEN JsString(parts[2]) ELSE JsUndefined]

\* String.prototype.replace(pattern, replacement) with a string pattern:
\* the first occurrence is replaced.
ReplaceFirst(text, pattern, replacement) ==
    IF \A i \in 1..Len(text) : text[i] # pattern THEN text
    ELSE LET k == CHOOSE i \in 1..Len(text) :
                      text[i] = pattern /\ \A j \in 1..(i - 1) : text[j] # pattern
         IN SubSeq(text, 1, k - 1) \o replacement \o SubSeq(text, k + 1, Len(text))

\* urlTemplate.replace('{alias}', alias).replace('{domain.tld}', domainName)
EndpointUrl(urlTemplate, alias, domain) ==
    ReplaceFirst(ReplaceFirst(urlTemplate, "{alias}", alias),
                 "{domain.tld}", domain)

\* Validators.checkPaymailHandle: the error it throws, or NoError.
\* handleRegex.test(handle): one "@", a local part, and a domain made of
\* labels separated by single dots.
checkPaymailHandle(handle) ==
    IF handle.type # "string" THEN
        Error("TypeError", <<"'handle' must be a string">>)
    ELSE LET parts == SplitOnAt(handle.text)
             matches ==
                 /\ Len(parts) = 2
                 /\ parts[1] # <<>>
                 /\ parts[2] # <<>>
                 /\ parts[2][1] # "." /\ parts[2][Len(parts[2])] # "."
                 /\ \A i \in 1..(Len(parts[2]) - 1) :
                        ~(parts[2][i] = "." /\ parts[2][i + 1] = ".")
         IN IF ~matches
            THEN Error("Error", <<"'handle' must be a valid paymail handle">>)
            ELSE NoError

\* A value given as `sender`: undefined, a Sender with or without key
\* store, or another object.
NoSender == [kind |-> "undefined", handle |-> <<>>, keyStore |-> FALSE]
Sender(handle, keyStore) == [kind |-> "Sender", handle |-> handle, keyStore |-> keyStore]
NotASender == [kind |-> "object", handle |-> <<>>, keyStore |-> FALSE]

\* Sender.canSignSenderInfo
canSignSenderInfo(sender) == sender.keyStore

Output(satoshis, script) == [satoshis |-> satoshis, script |-> script]

\* A value given as `paymentIntent`.
PaymentIntent(type, handle, outputs, reference, sender) ==
    [type |-> type, handle |-> handle, outputs |-> outputs,
     reference |-> reference, sender |-> sender]
NoPaymentIntent == PaymentIntent("undefined", JsUndefined, Absent, JsUndefined, NoSender)

\* The call of a feature client: its method and its arguments.
ClientCall(method, handle, satoshis, sender, paymentIntent, mapiClient, rawTx, publicKey) ==
    [method |-> method, handle |-> handle, satoshis |-> satoshis,
     sender |-> sender, paymentIntent |-> paymentIntent,
     mapiClient |-> mapiClient, rawTx |-> rawTx, publicKey |-> publicKey]
\* One request of the call, or the reply to one: a capability resolution,
\* the broadcast, a GET or POST to a capability endpoint, or the body that
\* came back (data: the fields of the body).
Event(kind, url, data) == [kind |-> kind, url |-> url, data |-> data]

\* Locals of the call that are read after an await.
Locals(capabilities, url, postData, txid) ==
    [capabilities |-> capabilities, url |-> url, postData |-> postData, txid |-> txid]
NoLocals == Locals(NoObject, <<>>, {}, JsUndefined)

\* What the call returned or threw.
ClientResult(kind, intent, output, value, error) ==
    [kind |-> kind, intent |-> intent, output |-> output, value |-> value,
     error |-> error]
NoOutput == Output(JsUndefined, JsUndefined)
NoClientResult == ClientResult("none", NoPaymentIntent, NoOutput, JsUndefined, NoError)
ClientThrown(e) == ClientResult("throw", NoPaymentIntent, NoOutput, JsUndefined, e)
\* The call returned an intent, an output, a txid or a boolean.
ClientReturned(kind, intent, output, value) ==
    ClientResult(kind, intent, output, value, NoError)

----------------------------------------------------------------------------
(* The calls *)

Calls == 1..MaxCalls

\* A call that was not made yet: the locals of locateServices,
\* getWellKnownBaseUrl and getCapabilitiesForDomain, all unset.
IdleCall ==
    [method |-> "none", pc |-> "idle", domainName |-> <<>>,
     response |-> NoResponse, dohError |-> NoError, draws |-> <<>>,
     srvResult |-> SrvPending, gets |-> <<>>, wkResponse |-> NoWkResponse,
     result |-> NoResult]

Init ==
    /\ pc = "idle"
    /\ resolverKind = "doh"
    /\ domainName = <<>>
    /\ dohResponse = NoResponse
    /\ draws = <<>>
    /\ srvResult = SrvPending
    /\ gets = <<>>
    /\ result = NoResult
    /\ randCalls = 0
    /\ wkResponse = NoWkResponse
    /\ api = "getCapabilitiesForDomain"
    /\ capabilityCode = NoCode
    /\ supported = NotSupportedYet
    /\ calls = [c \in Calls |-> IdleCall]
    /\ randomLog = <<>>
    /\ clientPc = "idle"
    /\ clientCall = ClientCall("none", JsUndefined, JsUndefined, NoSender,
                               NoPaymentIntent, FALSE, JsUndefined, <<>>)
    /\ lookups = <<>>
    /\ events = <<>>
    /\ locals = NoLocals
    /\ clientResult = NoClientResult

\* No call is in flight (the calls of the model follow one another).
CanCall ==
    /\ \/ pc = "idle"
       \/ pc = "done" /\ api = "getCapabilitiesForDomain"
       \/ pc = "supportedDone"
    /\ randCalls < MaxRandomCalls

\* new CapabilityResolver({srvResolver}).getCapabilitiesForDomain(domain)
\* up to the first await: getWellKnownBaseUrl calls
\* srvResolver.locateServices(domain, 'bsvalias', 'tcp'), which, in a
\* DohSrvResolver, builds the query and awaits Request.get.
GetCapabilitiesForDomainCall(kind, domain) ==
    /\ CanCall
    /\ pc' = IF kind = "doh" THEN "dohWait" ELSE "srvWait"
    /\ resolverKind' = kind
    /\ domainName' = domain
    /\ dohResponse' = NoResponse
    /\ draws' = <<>>
    /\ srvResult' = SrvPending
    /\ gets' = IF kind = "doh"
               THEN <<DohUrl(QueryName(domain, "bsvalias", "tcp"))>>
               ELSE <<>>
    /\ result' = NoResult
    /\ wkResponse' = NoWkResponse
    /\ api' = "getCapabilitiesForDomain"
    /\ capabilityCode' = NoCode
    /\ supported' = NotSupportedYet
    /\ UNCHANGED randCalls
    /\ UNCHANGED concurrentVars
    /\ UNCHANGED clientVars

\* isCapabilitySupportedForDomain(capabilityCode, domain) up to the first
\* await: it calls getCapabilitiesForDomain(domain).  The CapabilityResolver
\* of these calls has an SrvResolver other than DohSrvResolver.
IsCapabilitySupportedForDomainCall(code, domain) ==
    /\ CanCall
    /\ pc' = "srvWait"
    /\ resolverKind' = "other"
    /\ domainName' = domain
    /\ dohResponse' = NoResponse
    /\ draws' = <<>>
    /\ srvResult' = SrvPending
    /\ gets' = <<>>
    /\ result' = NoResult
    /\ wkResponse' = NoWkResponse
    /\ api' = "isCapabilitySupportedForDomain"
    /\ capabilityCode' = code
    /\ supported' = NotSupportedYet
    /\ UNCHANGED randCalls
    /\ UNCHANGED concurrentVars
    /\ UNCHANGED clientVars

\* The DNS-over-HTTPS reply arrives: the rest of locateServices runs to
\* its end without another await.
DohReply(response) ==
    /\ pc = "dohWait"
    /\ \E run \in locateServices(QueryName(domainName, "bsvalias", "tcp"), response) :
        /\ dohResponse' = response
        /\ draws' = run.randoms
        /\ randCalls' = randCalls + Len(run.randoms)
        /\ srvResult' = run.outcome
    /\ pc' = "srvSettled"
    /\ UNCHANGED <<resolverKind, domainName, gets, result, wkResponse, api,
                   capabilityCode, supported>>
    /\ UNCHANGED concurrentVars
    /\ UNCHANGED clientVars

\* Request.get of the DNS-over-HTTPS query rejects.
DohRequestFails(e) ==
    /\ pc = "dohWait"
    /\ pc' = "srvSettled"
    /\ srvResult' = SrvThrow(e)
    /\ UNCHANGED <<resolverKind, domainName, dohResponse, draws, gets, result,
                   randCalls, wkResponse, api, capabilityCode, supported>>
    /\ UNCHANGED concurrentVars
    /\ UNCHANGED clientVars

\* A resolver other than DohSrvResolver settles.
OtherResolverSettles(srv) ==
    /\ pc = "srvWait"
    /\ pc' = "srvSettled"
    /\ srvResult' = srv
    /\ UNCHANGED <<resolverKind, domainName, dohResponse, draws, gets, result,
                   randCalls, wkResponse, api, capabilityCode, supported>>
    /\ UNCHANGED concurrentVars
    /\ UNCHANGED clientVars

\* getWellKnownBaseUrl resumes after its await, and getCapabilitiesForDomain
\* goes on to Request.get(wellKnownBsvAliasUrl) unless it threw.  The
\* locals of the finished locateServices call are gone.
GetWellKnownBaseUrlResume ==
    /\ pc = "srvSettled"
    /\ LET base == getWellKnownBaseUrl(domainName, srvResult) IN
       IF base.ok
       THEN /\ pc' = "wkWait"
            /\ gets' = Append(gets, base.url)
            /\ result' = result
       ELSE /\ pc' = "done"
            /\ gets' = gets
            /\ result' = Thrown(base.error)
    /\ dohResponse' = NoResponse
    /\ draws' = <<>>
    /\ UNCHANGED <<resolverKind, domainName, srvResult, randCalls, wkResponse,
                   api, capabilityCode, supported>>
    /\ UNCHANGED concurrentVars
    /\ UNCHANGED clientVars

\* The well-known document arrives.
WellKnownReply(document) ==
    /\ pc = "wkWait"
    /\ pc' = "done"
    /\ result' = CheckDocument(document)
    /\ wkResponse' = WkDocument(document)
    /\ UNCHANGED <<resolverKind, domainName, dohResponse, draws, srvResult,
                   gets, randCalls, api, capabilityCode, supported>>
    /\ UNCHANGED concurrentVars
    /\ UNCHANGED clientVars

\* Request.get of the well-known document rejects.
WellKnownRequestFails(e) ==
    /\ pc = "wkWait"
    /\ pc' = "done"
    /\ result' = Thrown(e)
    /\ wkResponse' = WkThrow(e)
    /\ UNCHANGED <<resolverKind, domainName, dohResponse, draws, srvResult,
                   gets, randCalls, api, capabilityCode, supported>>
    /\ UNCHANGED concurrentVars
    /\ UNCHANGED clientVars

\* isCapabilitySupportedForDomain resumes after its await of
\* getCapabilitiesForDomain.
IsCapabilitySupportedResume ==
    /\ pc = "done"
    /\ api = "isCapabilitySupportedForDomain"
    /\ pc' = "supportedDone"
    /\ supported' = isCapabilitySupportedForDomain(result, capabilityCode)
    /\ UNCHANGED <<resolverKind, domainName, dohResponse, draws, srvResult,
                   gets, result, randCalls, wkResponse, api, capabilityCode>>
    /\ UNCHANGED concurrentVars
    /\ UNCHANGED clientVars

Next ==
    \/ \E kind \in {"doh", "other"}, domain \in Domains :
            GetCapabilitiesForDomainCall(kind, domain)
    \/ \E code \in CapabilityCodes, domain \in Domains :
            IsCapabilitySupportedForDomainCall(code, domain)
    \/ /\ pc = "dohWait"
       /\ \E response \in DohResponses(QueryName(domainName, "bsvalias", "tcp")) :
            DohReply(response)
    \/ \E e \in TransportErrors : DohRequestFails(e)
    \/ /\ pc = "srvWait"
       /\ api = "getCapabilitiesForDomain"
       /\ \E srv \in OtherResolverOutcomes(domainName) : OtherResolverSettles(srv)
    \/ /\ pc = "srvWait"
       /\ api = "isCapabilitySupportedForDomain"
       /\ \E srv \in OneServiceOutcomes(domainName) : OtherResolverSettles(srv)
    \/ GetWellKnownBaseUrlResume
    \/ \E document \in Documents : WellKnownReply(document)
    \/ \E e \in TransportErrors : WellKnownRequestFails(e)
    \/ IsCapabilitySupportedResume

Spec == Init /\ [][Next]_vars

----------------------------------------------------------------------------
(* Concurrent calls on one CapabilityResolver and its DohSrvResolver *)

\* The objects have no field but their collaborators (srvResolver, request):
\* what a call knows between its awaits is in its own locals, calls[c].
\* Code between two awaits runs without interruption, so that a
\* continuation is one step; the steps of different calls interleave freely.

\* Replies to concurrent queries: no such domain, and a list whose ordering
\* reads the random source twice and depends on what it reads.
ConcurrentResponses(queryName) ==
    LET echo == Present(<<Question(queryName, SRV)>>)
        d == Answer(queryName, SRV, SrvData(10, 0, 8443, <<"d">>))
        www == Answer(queryName, SRV, SrvData(10, 0, 443, <<"www", ".", "d">>))
        t3 == Answer(queryName, SRV, SrvData(10, 2, 443, <<"t3">>))
    IN {QueryResponse(NXDOMAIN, FALSE, echo, Absent),
        QueryResponse(NOERROR, TRUE, echo, Present(<<d, t3, www>>))}

ConcurrentErrors == {Error("ConnectionTimeoutError", <<"Connection timeout">>)}

\* The query name of a call, from its own arguments.
QueryOf(call) == QueryName(call.domainName, "bsvalias", "tcp")

\* A call starts and runs up to its first await, Request.get of its query.
\* (Calls are started in the order of their numbers; replies arrive in any
\* order.)
ConcurrentCall(c, method, domain) ==
    /\ calls[c].pc = "idle"
    /\ \A b \in Calls : b < c => calls[b].pc # "idle"
    /\ calls' = [calls EXCEPT ![c] =
          [IdleCall EXCEPT !.method = method, !.pc = "dohWait",
                           !.domainName = domain,
                           !.gets = <<DohUrl(QueryName(domain, "bsvalias", "tcp"))>>]]
    /\ UNCHANGED randomLog
    /\ UNCHANGED callVars
    /\ UNCHANGED clientVars

\* Variant: a reply already received for the same query name by another
\* call is used in place of the call's own.
ConcurrentDohReplyCached(c, response) ==
    /\ calls[c].pc = "dohWait"
    /\ LET hits == {b \in Calls : /\ b # c
                                  /\ calls[b].response # NoResponse
                                  /\ QueryOf(calls[b]) = QueryOf(calls[c])}
           used == IF hits = {} THEN response
                   ELSE calls[CHOOSE b \in hits : TRUE].response
       IN \E run \in locateServices(QueryOf(calls[c]), used) :
            /\ calls' = [calls EXCEPT ![c] =
                  [@ EXCEPT !.response = response,
                            !.draws = run.randoms,
                            !.srvResult = run.outcome,
                            !.pc = IF @ = "dohWait" /\ calls[c].method = "locateServices"
                                   THEN "done" ELSE "srvSettled"]]
            /\ randomLog' = randomLog \o [i \in 1..Len(run.randoms) |-> c]
    /\ UNCHANGED callVars
    /\ UNCHANGED clientVars

\* The reply to the query of call c arrives: the rest of its locateServices
\* runs to the end, reading the random source as often as its ordering
\* needs, with no await in between.
ConcurrentDohReply(c, response) ==
    /\ calls[c].pc = "dohWait"
    /\ \E run \in locateServices(QueryOf(calls[c]), response) :
        /\ calls' = [calls EXCEPT ![c] =
              [@ EXCEPT !.response = response,
                        !.draws = run.randoms,
                        !.srvResult = run.outcome,
                        !.pc = IF @ = "dohWait" /\ calls[c].method = "locateServices"
                               THEN "done" ELSE "srvSettled"]]
        /\ randomLog' = randomLog \o [i \in 1..Len(run.randoms) |-> c]
    /\ UNCHANGED callVars
    /\ UNCHANGED clientVars

\* Request.get of the query of call c rejects.
ConcurrentDohRequestFails(c, e) ==
    /\ calls[c].pc = "dohWait"
    /\ calls' = [calls EXCEPT ![c] =
          [@ EXCEPT !.dohError = e,
                    !.srvResult = SrvThrow(e),
                    !.pc = IF calls[c].method = "locateServices"
                           THEN "done" ELSE "srvSettled"]]
    /\ UNCHANGED randomLog
    /\ UNCHANGED callVars
    /\ UNCHANGED clientVars

\* getWellKnownBaseUrl of call c resumes after its await.
ConcurrentGetWellKnownBaseUrlResume(c) ==
    /\ calls[c].pc = "srvSettled"
    /\ LET base == getWellKnownBaseUrl(calls[c].domainName, calls[c].srvResult) IN
       calls' = [calls EXCEPT ![c] =
          IF base.ok
          THEN [@ EXCEPT !.pc = "wkWait", !.gets = Append(@, base.url)]
          ELSE [@ EXCEPT !.pc = "done", !.result = Thrown(base.error)]]
    /\ UNCHANGED randomLog
    /\ UNCHANGED callVars
    /\ UNCHANGED clientVars

\* The well-known document asked for by call c arrives.
ConcurrentWellKnownReply(c, document) ==
    /\ calls[c].pc = "wkWait"
    /\ calls' = [calls EXCEPT ![c] =
          [@ EXCEPT !.pc = "done", !.result = CheckDocument(document),
                    !.wkResponse = WkDocument(document)]]
    /\ UNCHANGED randomLog
    /\ UNCHANGED callVars
    /\ UNCHANGED clientVars

\* Request.get of the well-known document of call c rejects.
ConcurrentWellKnownRequestFails(c, e) ==
    /\ calls[c].pc = "wkWait"
    /\ calls' = [calls EXCEPT ![c] =
          [@ EXCEPT !.pc = "done", !.result = Thrown(e),
                    !.wkResponse = WkThrow(e)]]
    /\ UNCHANGED randomLog
    /\ UNCHANGED callVars
    /\ UNCHANGED clientVars

ConcurrentNext ==
    \/ \E c \in Calls, method \in {"locateServices", "getCapabilitiesForDomain"}, domain \in Domains :
            ConcurrentCall(c, method, domain)
    \/ \E c \in Calls :
        /\ calls[c].pc = "dohWait"
        /\ \E response \in ConcurrentResponses(QueryOf(calls[c])) :
                ConcurrentDohReply(c, response)
    \/ \E c \in Calls, e \in ConcurrentErrors : ConcurrentDohRequestFails(c, e)
    \/ \E c \in Calls : ConcurrentGetWellKnownBaseUrlResume(c)
    \/ \E c \in Calls,
          document \in {Document(Field("string", BSVALIAS_VERSION),
                                 Field("object",
                                       JsObject(CHOOSE m \in CapabilityMaps : m # {})))} :
            ConcurrentWellKnownReply(c, document)
    \/ \E c \in Calls, e \in ConcurrentErrors : ConcurrentWellKnownRequestFails(c, e)

ConcurrentSpec == Init /\ [][ConcurrentNext]_vars

----------------------------------------------------------------------------
(* Calls of PaymentsClient and PkiClient *)

\* The CapabilityResolver of a feature client settles every resolution
\* anew; the calls of the model follow one another.

\* Arguments of the calls.  paymentIntents: of the P2P kind with a sender
\* that can sign, with one that cannot, without sender, with an empty
\* reference and without handle; of the basic kind; and malformed ones.
ClientArguments ==
    LET alice == JsString(<<"alice", "@", "d">>)
        bob == <<"bob", "@", "e">>
        outputs == Present(<<Output(JsNumber(1000), JsString(<<"script-1">>))>>)
        reference == JsString(<<"ref-1">>)
    IN [handles |-> {alice, JsString(<<"alice">>), JsUndefined},
        satoshis |-> {JsNumber(1000), JsNumber(-1), JsString(<<"1000">>)},
        senders |-> {Sender(bob, TRUE), Sender(bob, FALSE), NotASender},
        paymentIntents |->
            {PaymentIntent("object", alice, outputs, reference, Sender(bob, TRUE)),
             PaymentIntent("object", alice, outputs, reference, Sender(bob, FALSE)),
             PaymentIntent("object", alice, outputs, reference, NoSender),
             PaymentIntent("object", alice, outputs, JsString(<<>>), NoSender),
             PaymentIntent("object", JsUndefined, outputs, reference, NoSender),
             PaymentIntent("object", alice, outputs, JsUndefined, Sender(bob, TRUE)),
             PaymentIntent("object", alice, outputs, JsNumber(7), NoSender),
             PaymentIntent("object", alice, Absent, reference, NoSender),
             PaymentIntent("object", alice, outputs, reference, NotASender),
             PaymentIntent("null", JsUndefined, Absent, JsUndefined, NoSender),
             NoPaymentIntent},
        rawTransactions |-> {JsString(<<"0100000001...">>), JsUndefined},
        verifiedHandles |-> {alice},
        publicKeys |-> {<<"02ab...">>}]

\* What the awaits of the calls settle with.
\* resolutions (getCapabilitiesForDomain): a capability map, null (a
\* document with capabilities: null passes its checks), or an error; the
\* maps have every capability as a string with sender validation required,
\* the basic destination only, with and without sender validation, the P2P
\* capabilities at another address, sender validation only, nothing, and
\* values that are no strings.
\* keyStore: Sender.getPublicKey, signBasicSenderInfo and signP2pInfo.
\* basic, p2p, transactions, verify: the bodies the endpoints reply with;
\* verify echoes the handle and the key of the request or others, with
\* `match` true, false or absent.
\* mapi, mapiErrors: mapiClient.submitTransaction.
\* errors: Request.get and Request.post.
ClientReplies ==
    LET template(host, path) == <<host, "{alias}", "@", "{domain.tld}", path>>
        maps ==
            {{<<P2P_PAYMENT_DESTINATION_BRFC, JsString(template("https://p/", "/p2p"))>>,
              <<P2P_TRANSACTIONS_BRFC, JsString(template("https://p/", "/tx"))>>,
              <<BASIC_PAYMENT_RESOLUTION_BRFC, JsString(template("https://b/", "/dest"))>>,
              <<SENDER_VALIDATION_BRFC, JsBoolean(TRUE)>>,
              <<VERIFY_PUBLIC_KEY_OWNER_BRFC,
                JsString(template("https://v/", "/") \o <<"{pubkey}">>)>>},
             {<<BASIC_PAYMENT_RESOLUTION_BRFC, JsString(template("https://b/", "/dest"))>>,
              <<SENDER_VALIDATION_BRFC, JsBoolean(TRUE)>>},
             {<<BASIC_PAYMENT_RESOLUTION_BRFC, JsString(template("https://b/", "/dest"))>>},
             {<<P2P_PAYMENT_DESTINATION_BRFC, JsString(template("https://q/", "/p2p"))>>,
              <<P2P_TRANSACTIONS_BRFC, JsString(template("https://p/", "/tx"))>>},
             {<<SENDER_VALIDATION_BRFC, JsBoolean(TRUE)>>},
             {},
             {<<P2P_PAYMENT_DESTINATION_BRFC, JsBoolean(FALSE)>>,
              <<P2P_TRANSACTIONS_BRFC, JsBoolean(FALSE)>>,
              <<BASIC_PAYMENT_RESOLUTION_BRFC, JsNumber(5)>>,
              <<VERIFY_PUBLIC_KEY_OWNER_BRFC, JsBoolean(FALSE)>>}}
    IN [resolutions |->
            {Returned(JsObject(m)) : m \in maps}
            \cup {Returned(JsNull), Thrown(DNSSECNotEnabledError(<<"t1">>))},
        keyStore |->
            {[ok |-> TRUE, text |-> <<"made by the key store">>, error |-> NoError],
             [ok |-> FALSE, text |-> <<>>,
              error |-> Error("Error", <<"key store failed">>)]},
        basic |-> {[output |-> JsString(<<"76a914...88ac">>)], [output |-> JsUndefined]},
        p2p |->
            {[reference |-> JsString(<<"ref-1">>),
              outputs |-> Present(<<Output(JsNumber(400), JsString(<<"script-1">>)),
                                    Output(JsNumber(600), JsString(<<"script-2">>))>>)],
             [reference |-> JsUndefined, outputs |-> Absent]},
        mapi |-> {[txid |-> JsString(<<"txid-1">>)], [txid |-> JsString(<<"txid-2">>)]},
        mapiErrors |-> {Error("Error", <<"transaction rejected">>)},
        transactions |->
            {[txid |-> JsString(<<"txid-1">>), note |-> JsUndefined],
             [txid |-> JsString(<<"other txid">>), note |-> JsString(<<"note">>)]},
        verify |->
            {[handle |-> JsString(h), pubkey |-> JsString(k), match |-> m] :
                h \in {<<"alice", "@", "d">>, <<"carol", "@", "d">>},
                k \in {<<"02ab...">>, <<"03cd...">>},
                m \in {JsBoolean(TRUE), JsBoolean(FALSE), JsUndefined}},
        errors |-> {Error("ConnectionTimeoutError", <<"Connection timeout">>)}]

\* checkInitiatePaymentParams and checkGetBasicPaymentDestinationParams
\* (without purpose): the error thrown, or NoError.
checkInitiatePaymentParams(handle, satoshis, sender) ==
    IF checkPaymailHandle(handle) # NoError THEN checkPaymailHandle(handle)
    ELSE IF satoshis.type # "number" THEN
        Error("TypeError", <<"'satoshis' must be a finite integer">>)
    ELSE IF satoshis.num < 0 THEN
        Error("Error", <<"'satoshis' must be a positive integer">>)
    ELSE IF sender.kind # "Sender" THEN
        Error("TypeError", <<"'sender' must be an instance of Sender">>)
    ELSE NoError

\* The call ends by throwing e.
ClientThrows(e) ==
    /\ clientPc' = "done"
    /\ clientResult' = ClientThrown(e)

\* PaymentsClient.initiatePayment(params) up to its first await,
\* isCapabilitySupportedForDomain.
InitiatePaymentCall(handle, satoshis, sender) ==
    /\ clientPc \in {"idle", "done"}
    /\ clientCall' = ClientCall("initiatePayment", handle, satoshis, sender,
                                NoPaymentIntent, FALSE, JsUndefined, <<>>)
    /\ lookups' = <<>>
    /\ locals' = NoLocals
    /\ LET e == checkInitiatePaymentParams(handle, satoshis, sender) IN
       IF e # NoError
       THEN /\ ClientThrows(e)
            /\ events' = <<>>
       ELSE /\ clientPc' = "supportedWait"
            /\ clientResult' = NoClientResult
            /\ events' = <<Event("isCapabilitySupportedForDomain", HandleParts(handle.text).domainName.text, {})>>
    /\ UNCHANGED callVars
    /\ UNCHANGED concurrentVars

\* PaymentsClient.getBasicPaymentDestination(params) up to its first await.
GetBasicPaymentDestinationCall(handle, satoshis, sender) ==
    /\ clientPc \in {"idle", "done"}
    /\ clientCall' = ClientCall("getBasicPaymentDestination", handle, satoshis,
                                sender, NoPaymentIntent, FALSE, JsUndefined, <<>>)
    /\ lookups' = <<>>
    /\ locals' = NoLocals
    /\ LET e == checkInitiatePaymentParams(handle, satoshis, sender) IN
       IF e # NoError
       THEN /\ ClientThrows(e)
            /\ events' = <<>>
       ELSE /\ clientPc' = "basicCapabilitiesWait"
            /\ clientResult' = NoClientResult
            /\ events' = <<Event("getCapabilitiesForDomain", HandleParts(handle.text).domainName.text, {})>>
    /\ UNCHANGED callVars
    /\ UNCHANGED concurrentVars

\* initiatePayment after isCapabilitySupportedForDomain settled: the path
\* is chosen, and initiateP2pPayment or getBasicPaymentDestination runs up
\* to its own getCapabilitiesForDomain.
InitiatePaymentResume(settled) ==
    /\ clientPc = "supportedWait"
    /\ lookups' = Append(lookups, settled)
    /\ LET isP2pPaymentDestinationSupported ==
               isCapabilitySupportedForDomain(settled, P2P_PAYMENT_DESTINATION_BRFC)
       IN IF isP2pPaymentDestinationSupported.kind = "throw"
          THEN /\ ClientThrows(isP2pPaymentDestinationSupported.error)
               /\ events' = events
          ELSE /\ clientPc' = IF isP2pPaymentDestinationSupported.value
                              THEN "p2pCapabilitiesWait"
                              ELSE "basicCapabilitiesWait"
               /\ events' = Append(events,
                      Event("getCapabilitiesForDomain", HandleParts(clientCall.handle.text).domainName.text, {}))
               /\ clientResult' = clientResult
    /\ UNCHANGED <<clientCall, locals>>
    /\ UNCHANGED callVars
    /\ UNCHANGED concurrentVars

\* `typeof value`: a string.
TypeOf(value) == JsString(<<value.type>>)

\* The error thrown when `capabilities[key]` of a settled resolution is
\* read and checked: the error of the resolution, the TypeError of a
\* property of null, or that of the template checks, of which
\* `typeof urlTemplate === undefined` compares a string with undefined.
TemplateError(settled, key, notFound) ==
    IF settled.kind = "throw" THEN settled.error
    ELSE IF settled.capabilities.isNull THEN TypeError
    ELSE LET urlTemplate == GetProperty(settled.capabilities, key) IN
         IF TypeOf(urlTemplate) = JsUndefined THEN
             Error("BsvAliasCapabilityNotSupportedError", <<notFound>>)
         ELSE IF TypeOf(urlTemplate) # JsString(<<"string">>) THEN
             Error("BsvAliasUnexpectedServerResponseError",
                   <<"Capability information must be a string">>)
         ELSE NoError

\* initiateP2pPayment after getCapabilitiesForDomain settled.
InitiateP2pPaymentResume(settled) ==
    /\ clientPc = "p2pCapabilitiesWait"
    /\ lookups' = Append(lookups, settled)
    /\ LET e == TemplateError(settled, P2P_PAYMENT_DESTINATION_BRFC,
                              "No P2P payment destination capability found")
           parts == HandleParts(clientCall.handle.text)
       IN IF e # NoError
          THEN /\ ClientThrows(e)
               /\ UNCHANGED <<events, locals>>
          ELSE LET url == EndpointUrl(
                       GetProperty(settled.capabilities, P2P_PAYMENT_DESTINATION_BRFC).text,
                       parts.alias, parts.domainName.text)
                   postData == {<<"satoshis", clientCall.satoshis>>}
               IN /\ clientPc' = "p2pPostWait"
                  /\ events' = Append(events, Event("post", url, postData))
                  /\ locals' = Locals(settled.capabilities, url, postData, JsUndefined)
                  /\ clientResult' = clientResult
    /\ UNCHANGED clientCall
    /\ UNCHANGED callVars
    /\ UNCHANGED concurrentVars

\* Variant: the signature is never required.
SignatureNeverRequired(senderValidationEnabled, canSign) == FALSE

\* `senderValidationEnabled === true && !canSignSenderInfo`
SignatureRequired(senderValidationEnabled, canSign) ==
    senderValidationEnabled = JsBoolean(TRUE) /\ ~canSign

\* getBasicPaymentDestination after getCapabilitiesForDomain settled, up
\* to the await of sender.signBasicSenderInfo or of Request.post.
GetBasicPaymentDestinationResume(settled) ==
    /\ clientPc = "basicCapabilitiesWait"
    /\ lookups' = Append(lookups, settled)
    /\ LET e == TemplateError(settled, BASIC_PAYMENT_RESOLUTION_BRFC,
                              "No basic payment destination capability found")
           parts == HandleParts(clientCall.handle.text)
       IN IF e # NoError
          THEN /\ ClientThrows(e)
               /\ UNCHANGED <<events, locals>>
          ELSE LET url == EndpointUrl(
                       GetProperty(settled.capabilities, BASIC_PAYMENT_RESOLUTION_BRFC).text,
                       parts.alias, parts.domainName.text)
                   postData == {<<"senderHandle", JsString(clientCall.sender.handle)>>,
                                <<"amount", clientCall.satoshis>>,
                                <<"dt", JsString(<<"now">>)>>}
                   canSign == canSignSenderInfo(clientCall.sender)
               IN IF SignatureRequired(
                         GetProperty(settled.capabilities, SENDER_VALIDATION_BRFC), canSign)
                  THEN /\ ClientThrows(Error("BsvAliasClientConfigurationError",
                              <<"Signature is required before sending the request">>))
                       /\ UNCHANGED <<events, locals>>
                  ELSE /\ locals' = Locals(settled.capabilities, url, postData, JsUndefined)
                       /\ clientResult' = clientResult
                       /\ IF canSign
                          THEN /\ clientPc' = "basicSignWait"
                               /\ events' = events
                          ELSE /\ clientPc' = "basicPostWait"
                               /\ events' = Append(events, Event("post", url, postData))
    /\ UNCHANGED clientCall
    /\ UNCHANGED callVars
    /\ UNCHANGED concurrentVars

\* sender.signBasicSenderInfo settles; on success sender.getPublicKey is
\* awaited.
BasicSenderInfoSigned(outcome) ==
    /\ clientPc = "basicSignWait"
    /\ IF outcome.ok
       THEN /\ clientPc' = "basicPubkeyWait"
            /\ locals' = [locals EXCEPT !.postData =
                              @ \cup {<<"signature", JsString(outcome.text)>>}]
            /\ clientResult' = clientResult
       ELSE /\ ClientThrows(outcome.error)
            /\ locals' = locals
    /\ UNCHANGED <<clientCall, lookups, events>>
    /\ UNCHANGED callVars
    /\ UNCHANGED concurrentVars

\* sender.getPublicKey settles; on success the POST is sent.
BasicPublicKeyReceived(outcome) ==
    /\ clientPc = "basicPubkeyWait"
    /\ IF outcome.ok
       THEN LET postData == locals.postData \cup {<<"pubkey", JsString(outcome.text)>>} IN
            /\ clientPc' = "basicPostWait"
            /\ locals' = [locals EXCEPT !.postData = postData]
            /\ events' = Append(events, Event("post", locals.url, postData))
            /\ clientResult' = clientResult
       ELSE /\ ClientThrows(outcome.error)
            /\ UNCHANGED <<locals, events>>
    /\ UNCHANGED <<clientCall, lookups>>
    /\ UNCHANGED callVars
    /\ UNCHANGED concurrentVars

\* The basic payment destination endpoint replies:
\* getBasicPaymentDestination returns the output, and initiatePayment, if
\* it made the call, the intent.
BasicPaymentDestinationReply(response) ==
    /\ clientPc = "basicPostWait"
    /\ clientPc' = "done"
    /\ LET output == Output(clientCall.satoshis, response.output) IN
       clientResult' = IF clientCall.method = "initiatePayment"
                       THEN ClientReturned("intent",
                                PaymentIntent("object", clientCall.handle,
                                              Present(<<output>>), JsUndefined,
                                              clientCall.sender),
                                NoOutput, JsUndefined)
                       ELSE ClientReturned("output", NoPaymentIntent, output, JsUndefined)
    /\ UNCHANGED <<clientCall, lookups, locals>>
    /\ events' = Append(events, Event("reply", <<>>, {<<"output", response.output>>}))
    /\ UNCHANGED callVars
    /\ UNCHANGED concurrentVars

\* checkConfirmPaymentParams: the error thrown, or NoError.  (typeof null
\* is 'object', and null has no outputs.)
checkConfirmPaymentParams(paymentIntent, mapiClient, rawTx) ==
    IF paymentIntent.type \notin {"object", "null"} THEN
        Error("TypeError", <<"'paymentIntent' must be an object">>)
    ELSE IF ~paymentIntent.outputs.present THEN
        Error("TypeError", <<"'paymentIntent.outputs' must be an array">>)
    ELSE IF paymentIntent.reference.type \notin {"undefined", "string"} THEN
        Error("TypeError", <<"'paymentIntent.reference' must be a string">>)
    ELSE IF paymentIntent.sender.kind \notin {"undefined", "Sender"} THEN
        Error("TypeError", <<"'paymentIntent.sender' must be an instance of Sender">>)
    ELSE IF ~mapiClient THEN
        Error("TypeError", <<"'mapiClient'must be an instance of MapiClient">>)
    ELSE IF rawTx.type # "string" THEN
        Error("TypeError", <<"'rawTx' must be a string">>)
    ELSE NoError

\* PaymentsClient.confirmPayment(params) up to its first await,
\* mapiClient.submitTransaction.
ConfirmPaymentCall(paymentIntent, mapiClient, rawTx) ==
    /\ clientPc \in {"idle", "done"}
    /\ clientCall' = ClientCall("confirmPayment", JsUndefined, JsUndefined, NoSender,
                                paymentIntent, mapiClient, rawTx, <<>>)
    /\ lookups' = <<>>
    /\ locals' = NoLocals
    /\ LET e == checkConfirmPaymentParams(paymentIntent, mapiClient, rawTx) IN
       IF e # NoError
       THEN /\ ClientThrows(e)
            /\ events' = <<>>
       ELSE /\ clientPc' = "mapiWait"
            /\ clientResult' = NoClientResult
            /\ events' = <<Event("submitTransaction", <<>>, {<<"rawTx", rawTx>>})>>
    /\ UNCHANGED callVars
    /\ UNCHANGED concurrentVars

\* Variant: every payment is notified to the P2P endpoint.
isP2pPaymentAlways(paymentIntent) == TRUE

\* `paymentIntent.reference === undefined ? false : true`
isP2pPayment(paymentIntent) == paymentIntent.reference # JsUndefined

\* submitTransaction resolves: confirmPayment returns the txid, or
\* notifyP2pEndpoint runs up to its getCapabilitiesForDomain (it tests the
\* reference itself, and splits the handle).
SubmitTransactionReply(r) ==
    /\ clientPc = "mapiWait"
    /\ locals' = [locals EXCEPT !.txid = r.txid]
    /\ LET replied == Append(events, Event("reply", <<>>, {<<"txid", r.txid>>})) IN
       IF ~isP2pPayment(clientCall.paymentIntent)
       THEN /\ clientPc' = "done"
            /\ clientResult' = ClientReturned("txid", NoPaymentIntent, NoOutput, r.txid)
            /\ events' = replied
       ELSE IF clientCall.paymentIntent.reference = JsUndefined
       THEN /\ ClientThrows(Error("Error", <<"Reference must be specified">>))
            /\ events' = replied
       ELSE IF clientCall.paymentIntent.handle.type # "string"
       THEN /\ ClientThrows(TypeError)
            /\ events' = replied
       ELSE /\ clientPc' = "notifyCapabilitiesWait"
            /\ clientResult' = clientResult
            /\ events' = Append(replied,
                   Event("getCapabilitiesForDomain", HandleParts(clientCall.paymentIntent.handle.text).domainName.text, {}))
    /\ UNCHANGED <<clientCall, lookups>>
    /\ UNCHANGED callVars
    /\ UNCHANGED concurrentVars

\* submitTransaction rejects.
SubmitTransactionFails(e) ==
    /\ clientPc = "mapiWait"
    /\ ClientThrows(e)
    /\ UNCHANGED <<clientCall, lookups, events, locals>>
    /\ UNCHANGED callVars
    /\ UNCHANGED concurrentVars

\* notifyP2pEndpoint after getCapabilitiesForDomain settled, up to the
\* await of sender.getPublicKey or of Request.post.
NotifyP2pEndpointResume(settled) ==
    /\ clientPc = "notifyCapabilitiesWait"
    /\ lookups' = Append(lookups, settled)
    /\ LET e == IF settled.kind = "throw" THEN settled.error
                ELSE IF settled.capabilities.isNull THEN TypeError
                ELSE IF TypeOf(GetProperty(settled.capabilities, P2P_TRANSACTIONS_BRFC))
                            # JsString(<<"string">>)
                THEN Error("Error", <<"No P2P transaction capability found">>)
                ELSE NoError
           intent == clientCall.paymentIntent
           parts == HandleParts(intent.handle.text)
       IN IF e # NoError
          THEN /\ ClientThrows(e)
               /\ UNCHANGED <<events, locals>>
          ELSE LET url == EndpointUrl(
                       GetProperty(settled.capabilities, P2P_TRANSACTIONS_BRFC).text,
                       parts.alias, parts.domainName.text)
                   postData == {<<"hex", clientCall.rawTx>>,
                                <<"reference", intent.reference>>}
                               \cup (IF intent.sender.kind = "Sender"
                                     THEN {<<"metadata.sender", JsString(intent.sender.handle)>>}
                                     ELSE {})
               IN /\ locals' = Locals(settled.capabilities, url, postData, locals.txid)
                  /\ clientResult' = clientResult
                  /\ IF intent.sender.kind = "Sender" /\ canSignSenderInfo(intent.sender)
                     THEN /\ clientPc' = "notifyPubkeyWait"
                          /\ events' = events
                     ELSE /\ clientPc' = "notifyPostWait"
                          /\ events' = Append(events, Event("post", url, postData))
    /\ UNCHANGED clientCall
    /\ UNCHANGED callVars
    /\ UNCHANGED concurrentVars

\* sender.getPublicKey settles; on success sender.signP2pInfo is awaited.
NotifyPublicKeyReceived(outcome) ==
    /\ clientPc = "notifyPubkeyWait"
    /\ IF outcome.ok
       THEN /\ clientPc' = "notifySignWait"
            /\ locals' = [locals EXCEPT !.postData =
                              @ \cup {<<"metadata.pubkey", JsString(outcome.text)>>}]
            /\ clientResult' = clientResult
       ELSE /\ ClientThrows(outcome.error)
            /\ locals' = locals
    /\ UNCHANGED <<clientCall, lookups, events>>
    /\ UNCHANGED callVars
    /\ UNCHANGED concurrentVars

\* sender.signP2pInfo settles; on success the POST is sent.
NotifyP2pInfoSigned(outcome) ==
    /\ clientPc = "notifySignWait"
    /\ IF outcome.ok
       THEN LET postData == locals.postData
                                \cup {<<"metadata.signature", JsString(outcome.text)>>} IN
            /\ clientPc' = "notifyPostWait"
            /\ locals' = [locals EXCEPT !.postData = postData]
            /\ events' = Append(events, Event("post", locals.url, postData))
            /\ clientResult' = clientResult
       ELSE /\ ClientThrows(outcome.error)
            /\ UNCHANGED <<locals, events>>
    /\ UNCHANGED <<clientCall, lookups>>
    /\ UNCHANGED callVars
    /\ UNCHANGED concurrentVars

\* The P2P transactions endpoint replies, and confirmPayment returns the
\* txid of submitTransaction.
P2pTransactionReply(response) ==
    /\ clientPc = "notifyPostWait"
    /\ clientPc' = "done"
    /\ clientResult' = ClientReturned("txid", NoPaymentIntent, NoOutput, locals.txid)
    /\ UNCHANGED <<clientCall, lookups, locals>>
    /\ events' = Append(events, Event("reply", <<>>, {<<"txid", response.txid>>, <<"note", response.note>>}))
    /\ UNCHANGED callVars
    /\ UNCHANGED concurrentVars

\* Request.get or Request.post to a capability endpoint rejects.
EndpointRequestFails(e) ==
    /\ clientPc \in {"p2pPostWait", "basicPostWait", "notifyPostWait", "verifyGetWait"}
    /\ ClientThrows(e)
    /\ UNCHANGED <<clientCall, lookups, events, locals>>
    /\ UNCHANGED callVars
    /\ UNCHANGED concurrentVars

\* Variant: the intent of the P2P path without the reference of the reply.
P2pPaymentIntentWithoutReference(call, response) ==
    PaymentIntent("object", call.handle, response.outputs, JsUndefined, call.sender)

\* The intent initiatePayment builds on the P2P path.
P2pPaymentIntent(call, response) ==
    PaymentIntent("object", call.handle, response.outputs, response.reference,
                  call.sender)

\* The P2P payment destination endpoint replies, and initiatePayment returns.
P2pPaymentDestinationReply(response) ==
    /\ clientPc = "p2pPostWait"
    /\ clientPc' = "done"
    /\ clientResult' = ClientReturned("intent", P2pPaymentIntent(clientCall, response),
                                    NoOutput, JsUndefined)
    /\ UNCHANGED <<clientCall, lookups, locals>>
    /\ events' = Append(events, Event("reply", <<>>, {<<"reference", response.reference>>, <<"outputs", response.outputs>>}))
    /\ UNCHANGED callVars
    /\ UNCHANGED concurrentVars

\* PkiClient.verifyPublickeyOwner(handle, publicKey) up to its first
\* await, getCapabilitiesForDomain.
VerifyPublickeyOwnerCall(handle, publicKey) ==
    /\ clientPc \in {"idle", "done"}
    /\ clientCall' = ClientCall("verifyPublickeyOwner", handle, JsUndefined, NoSender,
                                NoPaymentIntent, FALSE, JsUndefined, publicKey)
    /\ lookups' = <<>>
    /\ locals' = NoLocals
    /\ clientPc' = "verifyCapabilitiesWait"
    /\ clientResult' = NoClientResult
    /\ events' = <<Event("getCapabilitiesForDomain", HandleParts(handle.text).domainName.text, {})>>
    /\ UNCHANGED callVars
    /\ UNCHANGED concurrentVars

\* verifyPublickeyOwner after getCapabilitiesForDomain settled, up to the
\* await of Request.get.
VerifyPublickeyOwnerResume(settled) ==
    /\ clientPc = "verifyCapabilitiesWait"
    /\ lookups' = Append(lookups, settled)
    /\ LET e == TemplateError(settled, VERIFY_PUBLIC_KEY_OWNER_BRFC,
                              "No verify public key owner capability found")
           parts == HandleParts(clientCall.handle.text)
       IN IF e # NoError
          THEN /\ ClientThrows(e)
               /\ UNCHANGED <<events, locals>>
          ELSE LET url == ReplaceFirst(
                       EndpointUrl(
                           GetProperty(settled.capabilities,
                                       VERIFY_PUBLIC_KEY_OWNER_BRFC).text,
                           parts.alias, parts.domainName.text),
                       "{pubkey}", clientCall.publicKey)
               IN /\ clientPc' = "verifyGetWait"
                  /\ locals' = Locals(settled.capabilities, url, {}, JsUndefined)
                  /\ events' = Append(events, Event("get", url, {}))
                  /\ clientResult' = clientResult
    /\ UNCHANGED clientCall
    /\ UNCHANGED callVars
    /\ UNCHANGED concurrentVars

\* `!value` is false for true, a non-empty string and a number other than 0.
Truthy(value) ==
    \/ value.type = "boolean" /\ value.bool
    \/ value.type = "string" /\ value.text # <<>>
    \/ value.type = "number" /\ value.num # 0

\* The verify public key owner endpoint replies: the echoed handle and
\* public key are compared with those sent, and `match` is returned.
VerifyPublicKeyOwnerReply(response) ==
    /\ clientPc = "verifyGetWait"
    /\ clientPc' = "done"
    /\ clientResult' =
           IF response.handle # clientCall.handle THEN
               ClientThrown(Error("BsvAliasUnexpectedServerResponseError",
                   <<"Handle returned in the response does not match the one sent in the request">>))
           ELSE IF response.pubkey # JsString(clientCall.publicKey) THEN
               ClientThrown(Error("BsvAliasUnexpectedServerResponseError",
                   <<"Public key returned in the response does not match the one sent in the request">>))
           ELSE IF ~Truthy(response.match) THEN
               ClientThrown(Error("BsvAliasUnexpectedServerResponseError",
                                  <<"'match' field not received">>))
           ELSE ClientReturned("match", NoPaymentIntent, NoOutput, response.match)
    /\ UNCHANGED <<clientCall, lookups, locals>>
    /\ events' = Append(events, Event("reply", <<>>, {<<"handle", response.handle>>, <<"pubkey", response.pubkey>>,
                 <<"match", response.match>>}))
    /\ UNCHANGED callVars
    /\ UNCHANGED concurrentVars

ClientNext ==
    \/ \E handle \in ClientArguments.handles, satoshis \in ClientArguments.satoshis,
          sender \in ClientArguments.senders :
            \/ InitiatePaymentCall(handle, satoshis, sender)
            \/ GetBasicPaymentDestinationCall(handle, satoshis, sender)
    \/ \E paymentIntent \in ClientArguments.paymentIntents, mapiClient \in BOOLEAN,
          rawTx \in ClientArguments.rawTransactions :
            ConfirmPaymentCall(paymentIntent, mapiClient, rawTx)
    \/ \E handle \in ClientArguments.verifiedHandles,
          publicKey \in ClientArguments.publicKeys :
            VerifyPublickeyOwnerCall(handle, publicKey)
    \/ \E settled \in ClientReplies.resolutions :
            \/ InitiatePaymentResume(settled)
            \/ InitiateP2pPaymentResume(settled)
            \/ GetBasicPaymentDestinationResume(settled)
            \/ NotifyP2pEndpointResume(settled)
            \/ VerifyPublickeyOwnerResume(settled)
    \/ \E outcome \in ClientReplies.keyStore :
            \/ BasicSenderInfoSigned(outcome)
            \/ BasicPublicKeyReceived(outcome)
            \/ NotifyPublicKeyReceived(outcome)
            \/ NotifyP2pInfoSigned(outcome)
    \/ \E response \in ClientReplies.basic :
            BasicPaymentDestinationReply(response)
    \/ \E response \in ClientReplies.p2p :
            P2pPaymentDestinationReply(response)
    \/ \E r \in ClientReplies.mapi : SubmitTransactionReply(r)
    \/ \E e \in ClientReplies.mapiErrors : SubmitTransactionFails(e)
    \/ \E response \in ClientReplies.transactions : P2pTransactionReply(response)
    \/ \E response \in ClientReplies.verify : VerifyPublicKeyOwnerReply(response)
    \/ \E e \in ClientReplies.errors : EndpointRequestFails(e)

ClientSpec == Init /\ [][ClientNext]_vars

----------------------------------------------------------------------------
(* Properties of CapabilityResolver *)

WithoutRootDot(name) ==
    IF name # <<>> /\ name[Len(name)] = "." THEN SubSeq(name, 1, Len(name) - 1)
    ELSE name

SameName(name1, name2) == WithoutRootDot(name1) = WithoutRootDot(name2)

\* The queried domain or www.<domain>, one trailing dot ignored on both sides.
OwnHost(host) ==
    SameName(host, domainName) \/ SameName(host, <<"www", ".">> \o domainName)

IsWellKnownGet(url) == url # <<>> /\ url[Len(url)] = "/.well-known/bsvalias"

WellKnownGets == SelectSeq(gets, IsWellKnownGet)

\* Position of the colon that separates host and port in a well-known URL.
PortColon(url) ==
    CHOOSE k \in 1..Len(url) :
        url[k] = ":" /\ \A j \in (k + 1)..Len(url) : url[j] # ":"

UrlHost(url) == SubSeq(url, 2, PortColon(url) - 1)

UrlPort(url) == SubSeq(url, PortColon(url) + 1, Len(url) - 1)

\* getWellKnownBaseUrl has run.
BaseUrlDone == pc \in {"wkWait", "done"}

HasFirstService == srvResult.kind = "response" /\ srvResult.services # <<>>

\* C1: a GET to a /.well-known/bsvalias URL is issued only if its host is
\* the queried domain or www.<domain> (one trailing dot ignored on both
\* sides), or is the host of the first service of an SrvResolver response
\* whose isDomainSecure is true.
FetchOnlyFromTrustedHost ==
    \A i \in 1..Len(gets) :
        IsWellKnownGet(gets[i]) =>
            \/ OwnHost(UrlHost(gets[i]))
            \/ /\ HasFirstService
               /\ srvResult.isDomainSecure
               /\ srvResult.services[1].host = UrlHost(gets[i])

\* C1, its case: the document is requested from a host outside the
\* queried domain.
FetchFromAuthenticatedTarget ==
    /\ pc = "wkWait"
    /\ WellKnownGets # <<>>
    /\ ~OwnHost(UrlHost(WellKnownGets[1]))

UnauthenticatedForeignTarget ==
    /\ HasFirstService
    /\ ~srvResult.isDomainSecure
    /\ ~OwnHost(srvResult.services[1].host)

EndsWith(text, suffix) ==
    /\ Len(suffix) <= Len(text)
    /\ SubSeq(text, Len(text) - Len(suffix) + 1, Len(text)) = suffix

\* C2: a non-null response with isDomainSecure = false whose first host is
\* neither the domain nor www.<domain> (names compared as in C1 and C3, a
\* trailing dot ignored) makes the call fail with DNSSECNotEnabledError,
\* the message naming that host, and no well-known GET is issued.
UnauthenticatedTargetRefused ==
    (BaseUrlDone /\ UnauthenticatedForeignTarget) =>
        /\ pc = "done"
        /\ result.kind = "throw"
        /\ result.error.name = "DNSSECNotEnabledError"
        /\ EndsWith(result.error.message, srvResult.services[1].host)
        /\ WellKnownGets = <<>>

\* C2, its case: the call has failed on an unauthenticated foreign target.
RefusedUnauthenticatedTarget ==
    /\ pc = "done"
    /\ UnauthenticatedForeignTarget
    /\ result.error.name = "DNSSECNotEnabledError"

\* C3: when the first host equals the domain or www.<domain> after one
\* trailing dot is stripped from both names, the well-known document is
\* requested from it, whatever the isDomainSecure flag.
OwnTargetFetched ==
    (BaseUrlDone /\ HasFirstService /\ OwnHost(srvResult.services[1].host)) =>
        /\ Len(WellKnownGets) = 1
        /\ UrlHost(WellKnownGets[1]) = srvResult.services[1].host
        /\ result.error.name # "DNSSECNotEnabledError"

\* C3, its case: flag false, and host and domain differ by the root dot.
OwnTargetFetchedUnauthenticated ==
    /\ pc = "wkWait"
    /\ HasFirstService
    /\ ~srvResult.isDomainSecure
    /\ srvResult.services[1].host # domainName
    /\ srvResult.services[1].host # <<"www", ".">> \o domainName
    /\ OwnHost(srvResult.services[1].host)

\* C4: the URL requested is https://{host}:{port}/.well-known/bsvalias with
\* (host, port) the first entry of the services list of a non-null
\* response, and (domain, 443) after a null one; one URL is requested.
WellKnownUrlOfFirstService ==
    /\ Len(WellKnownGets) <= 1
    /\ \A i \in 1..Len(WellKnownGets) :
        LET url == WellKnownGets[i] IN
        /\ url[1] = "https://"
        /\ srvResult.kind \in {"response", "null"}
        /\ srvResult.kind = "response" =>
              /\ srvResult.services # <<>>
              /\ UrlHost(url) = srvResult.services[1].host
              /\ ParseInt(UrlPort(url)) = Num(srvResult.services[1].port)
        /\ srvResult.kind = "null" =>
              /\ UrlHost(url) = domainName
              /\ UrlPort(url) = <<"4", "4", "3">>

\* C4, its case: the response lists two services that differ in host and
\* port, and the document is requested.
FetchedWithSeveralServices ==
    /\ pc = "wkWait"
    /\ srvResult.kind = "response"
    /\ Len(srvResult.services) >= 2
    /\ srvResult.services[1].host # srvResult.services[2].host
    /\ srvResult.services[1].port # srvResult.services[2].port

----------------------------------------------------------------------------
(* Properties of DohSrvResolver.locateServices *)

\* locateServices has just settled on a reply of the server.
Replied == pc = "srvSettled" /\ resolverKind = "doh" /\ dohResponse # NoResponse

\* The reply passed the Status and Question checks and carries an Answer.
AnswerReached ==
    /\ Replied
    /\ dohResponse.Status = NOERROR
    /\ dohResponse.Question.present
    /\ Len(dohResponse.Question.list) = 1
    /\ dohResponse.Question.list[1] =
           [name |-> QueryName(domainName, "bsvalias", "tcp"), type |-> SRV]
    /\ dohResponse.Answer.present

\* The entries of the Answer that echo the question, deserialised.
RetainedAnswers ==
    LET name == QueryName(domainName, "bsvalias", "tcp")
        retained == SelectSeq(dohResponse.Answer.list,
                              LAMBDA a : a.name = name /\ a.type = SRV)
    IN  [i \in 1..Len(retained) |-> deserialiseSrvAnswer(retained[i])] \o <<>>

\* Some entry is retained and every retained entry deserialises.
AllDeserialise(retained) ==
    retained # <<>> /\ \A i \in 1..Len(retained) : retained[i].ok

RecordsOf(retained) == [i \in 1..Len(retained) |-> retained[i].record] \o <<>>

RootTargets(records) == {i \in 1..Len(records) : records[i].target = <<".">>}

OrdinaryRecords(records) == SelectSeq(records, LAMBDA r : r.target # <<".">>)

ServicesOf(records) ==
    [i \in 1..Len(records) |-> [host |-> records[i].target, port |-> records[i].port]]
        \o <<>>

\* C5: null on account of the root target is returned only when the record
\* set is exactly one record whose target is "."; with two or more records
\* of which one has target ".", that record is dropped and the others are
\* returned (the result is not null).
NullOnlyForLoneRootTarget ==
    AnswerReached =>
        LET retained == RetainedAnswers
            records == RecordsOf(retained)
        IN  AllDeserialise(retained) =>
              /\ srvResult.kind = "null" =>
                    Len(records) = 1 /\ RootTargets(records) = {1}
              /\ (Len(records) >= 2 /\ Cardinality(RootTargets(records)) = 1) =>
                    srvResult.kind # "null"

IsPermutation(list, of) ==
    /\ Len(list) = Len(of)
    /\ \A i \in 1..Len(of) :
          Cardinality({j \in 1..Len(list) : list[j] = of[i]})
              = Cardinality({j \in 1..Len(of) : of[j] = of[i]})

\* C7: with two or more retained records of target ".", the result is not
\* null: it is {services: an ordering of the other records, isDomainSecure:
\* AD}, services being [] when every record has target "."; and a non-null
\* result has an empty services list in that case only.
ResponseForSeveralRootTargets ==
    /\ AnswerReached =>
          LET retained == RetainedAnswers
              records == RecordsOf(retained)
              ordinary == OrdinaryRecords(records)
          IN  (AllDeserialise(retained) /\ Cardinality(RootTargets(records)) >= 2) =>
                /\ srvResult.kind = "response"
                /\ srvResult.isDomainSecure = dohResponse.AD
                /\ IsPermutation(srvResult.services, ServicesOf(ordinary))
                /\ ordinary = <<>> => srvResult.services = <<>>
    /\ (Replied /\ srvResult.kind = "response" /\ srvResult.services = <<>>) =>
          /\ AnswerReached
          /\ LET retained == RetainedAnswers
                 records == RecordsOf(retained)
             IN  /\ AllDeserialise(retained)
                 /\ Cardinality(RootTargets(records)) >= 2
                 /\ OrdinaryRecords(records) = <<>>

\* The ordering stage is reached: the records deserialise and the root-target
\* rule did not end the call.
OrderingReached(retained) ==
    AllDeserialise(retained) /\ Cardinality(RootTargets(RecordsOf(retained))) # 1

\* The ordering as the specification words it, from the records in Answer
\* order and the draws in the order they were taken.
RECURSIVE CumulativeWeight(_, _)
CumulativeWeight(records, i) ==
    IF i = 0 THEN 0 ELSE CumulativeWeight(records, i - 1) + records[i].weight

FirstReaching(records, d) ==
    LET reaching == {i \in 1..Len(records) : CumulativeWeight(records, i) >= d}
    IN  IF reaching = {} THEN 0
        ELSE CHOOSE i \in reaching : \A j \in reaching : i <= j

Without(records, i) == SubSeq(records, 1, i - 1) \o SubSeq(records, i + 1, Len(records))

\* [out: the band's order, rest: the draws left, ok: every step had a draw in
\* [0, totalWeight) and a record to emit].
RECURSIVE WeightedOrder(_, _)
WeightedOrder(records, ds) ==
    IF Len(records) = 0 THEN [out |-> <<>>, rest |-> ds, ok |-> TRUE]
    ELSE IF Len(records) = 1 THEN [out |-> records, rest |-> ds, ok |-> TRUE]
    ELSE IF ds = <<>> THEN [out |-> <<>>, rest |-> ds, ok |-> FALSE]
    ELSE LET d == Head(ds)
             i == FirstReaching(records, d)
         IN  IF i = 0 THEN [out |-> <<>>, rest |-> Tail(ds), ok |-> FALSE]
             ELSE LET then == WeightedOrder(Without(records, i), Tail(ds))
                  IN  [out |-> <<records[i]>> \o then.out,
                       rest |-> then.rest,
                       ok |-> /\ then.ok
                              /\ 0 <= d
                              /\ d < CumulativeWeight(records, Len(records))]

PrioritiesOf(records) == {records[i].priority : i \in 1..Len(records)}

Band(records, p) == SelectSeq(records, LAMBDA r : r.priority = p)

RECURSIVE BandsInOrder(_, _, _)
BandsInOrder(records, priorities, ds) ==
    IF priorities = {} THEN [out |-> <<>>, rest |-> ds, ok |-> TRUE]
    ELSE LET p == CHOOSE q \in priorities : \A r \in priorities : q <= r
             first == WeightedOrder(Band(records, p), ds)
             then == BandsInOrder(records, priorities \ {p}, first.rest)
         IN  [out |-> first.out \o then.out,
              rest |-> then.rest,
              ok |-> first.ok /\ then.ok]

SpecifiedOrder(records, ds) == BandsInOrder(records, PrioritiesOf(records), ds)

\* The priority of the record behind an entry of the services list.
PriorityBehind(records, service) ==
    LET r == CHOOSE r \in {records[i] : i \in 1..Len(records)} :
                 r.target = service.host /\ r.port = service.port
    IN  r.priority

\* C8: the services of a non-null result are in ascending order of the
\* priority of the records behind them, and are the concatenation, in
\* ascending priority, of the weighted ordering of each priority band,
\* whatever the order of the Answer and whatever the draws.
ServicesAscendByPriority ==
    (AnswerReached /\ srvResult.kind = "response") =>
        LET retained == RetainedAnswers
            ordinary == OrdinaryRecords(RecordsOf(retained))
            specified == SpecifiedOrder(ordinary, draws)
            services == srvResult.services
            behind == [i \in 1..Len(services) |->
                          PriorityBehind(ordinary, services[i])] \o <<>>
        IN  OrderingReached(retained) =>
              /\ IsPermutation(services, ServicesOf(ordinary))
              /\ \A i, j \in 1..Len(services) : i < j => behind[i] <= behind[j]
              /\ services = ServicesOf(specified.out)
              /\ specified.rest = <<>>

\* C8, its case: an Answer that lists a higher priority numeral first, with
\* a band of two behind a draw.
AscendingFromUnsortedAnswer ==
    /\ AnswerReached
    /\ srvResult.kind = "response"
    /\ draws # <<>>
    /\ LET retained == RetainedAnswers
           ordinary == OrdinaryRecords(RecordsOf(retained))
       IN  /\ OrderingReached(retained)
           /\ Len(ordinary) >= 3
           /\ ordinary[1].priority > ordinary[2].priority

\* C9: within a band the order is a function of the records in Answer order
\* and of the draws: at each step with two or more records left, one integer
\* draw d in [0, totalWeight) is taken and the first record left whose
\* cumulative weight is >= d is emitted and removed.
BandOrderFollowsDraws ==
    AnswerReached =>
        LET retained == RetainedAnswers
            specified == SpecifiedOrder(OrdinaryRecords(RecordsOf(retained)), draws)
        IN  OrderingReached(retained) =>
              /\ srvResult.kind = "response"
              /\ specified.ok
              /\ srvResult.services = ServicesOf(specified.out)

RECURSIVE SumOver(_, _)
SumOver(f, set) ==
    IF set = {} THEN 0
    ELSE LET x == CHOOSE x \in set : TRUE IN f[x] + SumOver(f, set \ {x})

\* The sum over the priority bands of (band size - 1).
DrawsSpecified(records) ==
    LET ps == PrioritiesOf(records)
    IN  SumOver([p \in ps |-> Len(Band(records, p)) - 1], ps)

\* C10: a band's last record is emitted without a draw, so a call takes
\* exactly the sum over the bands of (band size - 1) draws from the random
\* source, and successive calls take that many each from a shared sequence
\* (draws holds what the settled call took from it).
DrawsTakenPerCall ==
    AnswerReached =>
        LET retained == RetainedAnswers
        IN  OrderingReached(retained) =>
              Len(draws) = DrawsSpecified(OrdinaryRecords(RecordsOf(retained)))

\* The record behind an entry of the services list.
RecordBehind(records, service) ==
    CHOOSE r \in {records[i] : i \in 1..Len(records)} :
        r.target = service.host /\ r.port = service.port

\* C11: in the ordering of a band a record of weight zero is selected by no
\* draw while another record of the band remains: it is emitted, and is
\* emitted as the last record left of its band.
ZeroWeightEmittedLast ==
    AnswerReached =>
        LET retained == RetainedAnswers
            ordinary == OrdinaryRecords(RecordsOf(retained))
            services == srvResult.services
            behind == [i \in 1..Len(services) |->
                          RecordBehind(ordinary, services[i])] \o <<>>
        IN  OrderingReached(retained) =>
              /\ \A k \in 1..Len(ordinary) :
                    ordinary[k].weight = 0 =>
                        /\ srvResult.kind = "response"
                        /\ \E i \in 1..Len(services) : behind[i] = ordinary[k]
              /\ \A i, j \in 1..Len(services) :
                    (i < j /\ behind[i].weight = 0) =>
                        behind[j].priority # behind[i].priority

\* C12: a reply whose Status is NXDOMAIN makes locateServices return null,
\* with no error and no draw, whatever its Question and Answer are.
NullOnNxDomain ==
    (Replied /\ dohResponse.Status = 3) => (srvResult = SrvNull /\ draws = <<>>)

\* C12, its case: NXDOMAIN without Question and with malformed Answer data.
NxDomainWithOddReply ==
    /\ Replied
    /\ dohResponse.Status = 3
    /\ ~dohResponse.Question.present
    /\ dohResponse.Answer.present
    /\ \E i \in 1..Len(dohResponse.Answer.list) :
          ~deserialiseSrvAnswer(dohResponse.Answer.list[i]).ok
    /\ srvResult.kind = "null"

\* The checks in the order the specification lists them: the message of the
\* first that fails, "null" where the call returns null, "" when all pass
\* and an Answer is present.
FirstFailingCheck(response, queryName) ==
    IF response.Status = 3 THEN "null"
    ELSE IF response.Status # 0 THEN "Error response sent by the server"
    ELSE IF ~response.Question.present THEN "No 'Question' field found"
    ELSE IF Len(response.Question.list) # 1 THEN "Expected only one 'Question' element"
    ELSE IF response.Question.list[1].name # queryName THEN "Invalid question name"
    ELSE IF response.Question.list[1].type # 33 THEN "Invalid question type"
    ELSE IF ~response.Answer.present THEN "null"
    ELSE ""

CheckMessages ==
    {"Error response sent by the server", "No 'Question' field found",
     "Expected only one 'Question' element", "Invalid question name",
     "Invalid question type"}

\* C13: the outcome is decided by the first check that fires, in the order
\* NXDOMAIN, Status, Question present, Question count, Question name,
\* Question type, Answer present, each failure with its own message; a
\* message of these checks is the outcome in no other case.
OutcomeOfFirstFailingCheck ==
    Replied =>
        LET first == FirstFailingCheck(dohResponse,
                                       QueryName(domainName, "bsvalias", "tcp"))
        IN  /\ first = "null" => srvResult = SrvNull
            /\ first \in CheckMessages =>
                  srvResult = SrvThrow(Error("DnsServerResponseError", <<first>>))
            /\ first = "" =>
                  ~(/\ srvResult.kind = "throw"
                    /\ \E m \in CheckMessages : srvResult.error.message = <<m>>)

\* C13, its case: a wrong Question without Answer fails, and an error
\* Status without Question fails on the Status.
InvalidQuestionWithoutAnswer ==
    /\ Replied
    /\ dohResponse.Status = 0
    /\ dohResponse.Question.present
    /\ Len(dohResponse.Question.list) = 1
    /\ dohResponse.Question.list[1].type # 33
    /\ ~dohResponse.Answer.present
    /\ srvResult.error.message = <<"Invalid question type">>

\* The reply is NOERROR and its Question is the echo of the query.
ValidQuestion ==
    /\ Replied
    /\ dohResponse.Status = 0
    /\ dohResponse.Question =
          [present |-> TRUE,
           list |-> <<[name |-> QueryName(domainName, "bsvalias", "tcp"),
                       type |-> 33]>>]

\* C14: with NOERROR and a valid Question, a reply without Answer field
\* gives null; an Answer field with no entry of the Question's name and
\* type (an empty list too) makes the call fail with 'No valid answer
\* found', never return a result.
NoAnswerNullNoMatchFails ==
    ValidQuestion =>
        /\ ~dohResponse.Answer.present => srvResult = SrvNull
        /\ (/\ dohResponse.Answer.present
            /\ \A i \in 1..Len(dohResponse.Answer.list) :
                  \/ dohResponse.Answer.list[i].name
                        # QueryName(domainName, "bsvalias", "tcp")
                  \/ dohResponse.Answer.list[i].type # 33)
           => srvResult = SrvThrow(Error("DnsServerResponseError",
                                         <<"No valid answer found">>))

\* C14, its case: the Answer holds an entry, which is of another type.
FailedOnUnmatchedAnswer ==
    /\ ValidQuestion
    /\ dohResponse.Answer.present
    /\ Len(dohResponse.Answer.list) = 1
    /\ dohResponse.Answer.list[1].type # 33
    /\ srvResult.kind = "throw"

\* A token that is not numeric: no digit follows its optional sign.
NonNumeric(token) ==
    LET body == IF token # <<>> /\ Head(token) \in {"-", "+"} THEN Tail(token)
                ELSE token
    IN  body = <<>> \/ body[1] \notin {"0", "1", "2", "3", "4", "5", "6", "7", "8", "9"}

\* The error that identifies the first malformed field of an entry's data,
\* "" for well-formed data.
FieldError(data) ==
    LET tokens == SplitOnSpace(data) IN
    IF Len(tokens) # 4 THEN "Invalid answer"
    ELSE IF NonNumeric(tokens[1])
         THEN "Invalid priority: value could not be converted to a number"
    ELSE IF NonNumeric(tokens[2])
         THEN "Invalid weight: value could not be converted to a number"
    ELSE IF NonNumeric(tokens[3])
         THEN "Invalid port: value could not be converted to a number"
    ELSE ""

FieldErrors ==
    {"Invalid answer",
     "Invalid priority: value could not be converted to a number",
     "Invalid weight: value could not be converted to a number",
     "Invalid port: value could not be converted to a number"}

\* The entries of the Answer that echo the Question, as received.
EchoingAnswers ==
    SelectSeq(dohResponse.Answer.list,
              LAMBDA a : a.name = QueryName(domainName, "bsvalias", "tcp")
                         /\ a.type = 33)

SingleRecordGivesItsService ==
    /\ (Replied /\ srvResult.kind = "response") =>
          srvResult.isDomainSecure = dohResponse.AD
    /\ (ValidQuestion /\ dohResponse.Answer.present) =>
          LET echoing == EchoingAnswers
              tokens == SplitOnSpace(echoing[1].data)
          IN  (/\ Len(echoing) = 1
               /\ FieldError(echoing[1].data) = ""
               /\ WithoutRootDot(tokens[4]) \notin {<<>>, <<".">>})
              => /\ srvResult.kind = "response"
                 /\ srvResult.isDomainSecure = dohResponse.AD
                 /\ Len(srvResult.services) = 1
                 /\ srvResult.services[1].host = WithoutRootDot(tokens[4])
                 /\ NumberToString(srvResult.services[1].port) = tokens[3]

\* C16, its case: the target of the one record ends with the root dot, and
\* the reply is authenticated.
SingleRecordWithRootDot ==
    /\ ValidQuestion
    /\ dohResponse.Answer.present
    /\ dohResponse.AD
    /\ Len(EchoingAnswers) = 1
    /\ FieldError(EchoingAnswers[1].data) = ""
    /\ LET target == SplitOnSpace(EchoingAnswers[1].data)[4]
       IN  Len(target) >= 2 /\ target[Len(target)] = "."
    /\ srvResult.kind = "response"

----------------------------------------------------------------------------
(* Properties of the capability document and of the call as a whole *)

\* getCapabilitiesForDomain has settled.
CapabilitiesSettled == pc \in {"done", "supportedDone"}

\* C17: when the document's bsvalias field is '1.0' and a capabilities
\* object is present, the call returns that object unchanged; when the
\* version differs, or the capabilities field is absent, null or not an
\* object, it fails with BsvAliasUnexpectedServerResponseError.
CapabilitiesReturnedVerbatim ==
    (CapabilitiesSettled /\ wkResponse.kind = "document") =>
        LET document == wkResponse.document
            versionOk == /\ document.bsvalias.type = "string"
                         /\ document.bsvalias.value = <<"1", ".", "0">>
            objectPresent == /\ document.capabilities.type = "object"
                             /\ ~document.capabilities.value.isNull
        IN  IF versionOk /\ objectPresent
            THEN /\ result.kind = "capabilities"
                 /\ result.capabilities = document.capabilities.value
            ELSE /\ result.kind = "throw"
                 /\ result.error.name = "BsvAliasUnexpectedServerResponseError"

\* C18: isCapabilitySupportedForDomain(id, domain) fails exactly when
\* getCapabilitiesForDomain(domain) fails, and otherwise returns whether id
\* is a key of the map that call returned, whatever the key's value.
SupportedIffKeyPresent ==
    pc = "supportedDone" =>
        /\ result.kind = "throw" => supported = SupportedThrow(result.error)
        /\ result.kind = "capabilities" =>
              /\ supported.kind = "boolean"
              /\ supported.value =
                    (\E entry \in result.capabilities.entries :
                        entry[1] = capabilityCode)

\* The GETs of the DNS-over-HTTPS query among the requests of the call.
DohGets == SelectSeq(gets, LAMBDA url : ~IsWellKnownGet(url))

\* C19: within a call the SRV lookup is over before the well-known GET is
\* issued; at most one lookup and one well-known GET are issued; a failure
\* of either ends the call with that very error and without a capability
\* map, and after a failed lookup no well-known GET is issued.
OneLookupThenOneFetch ==
    /\ Len(DohGets) <= 1 /\ Len(WellKnownGets) <= 1
    /\ gets = DohGets \o WellKnownGets
    /\ resolverKind = "doh" /\ pc # "idle" => Len(DohGets) = 1
    /\ pc \in {"dohWait", "srvWait", "srvSettled"} => WellKnownGets = <<>>
    /\ WellKnownGets # <<>> => srvResult.kind \in {"response", "null"}
    /\ (srvResult.kind = "throw" /\ pc \notin {"dohWait", "srvWait", "srvSettled"}) =>
          /\ CapabilitiesSettled
          /\ WellKnownGets = <<>>
          /\ result = Thrown(srvResult.error)
    /\ wkResponse.kind = "throw" =>
          /\ CapabilitiesSettled
          /\ result = Thrown(wkResponse.error)
    /\ wkResponse.kind # "none" => Len(WellKnownGets) = 1

\* C19, its case: the DNS-over-HTTPS round trip failed and the call ended
\* with its error, the one request made being the query.
EndedOnFailedLookup ==
    /\ resolverKind = "doh"
    /\ pc = "done"
    /\ srvResult.kind = "throw"
    /\ srvResult.error.name = "ConnectionTimeoutError"
    /\ result = Thrown(srvResult.error)
    /\ Len(gets) = 1

----------------------------------------------------------------------------
(* Properties of concurrent calls *)

\* Positions of the shared draw sequence read by call c.
DrawPositions(c) == {i \in 1..Len(randomLog) : randomLog[i] = c}

Contiguous(positions) ==
    \A i, j \in positions : \A k \in i..j : k \in positions

\* What the lookup of a call yields, from what its own query was answered
\* and from the draws it consumed.
OwnLookup(call) ==
    IF call.dohError # NoError THEN {SrvThrow(call.dohError)}
    ELSE IF call.response = NoResponse THEN {SrvPending}
    ELSE {run.outcome : run \in {r \in locateServices(QueryOf(call), call.response) :
                                    r.randoms = call.draws}}

\* The requests and the result of a call, from its own lookup and from
\* what its own well-known GET was answered.
OwnRequests(call) ==
    LET base == getWellKnownBaseUrl(call.domainName, call.srvResult) IN
    <<DohUrl(QueryOf(call))>>
        \o (IF call.pc \in {"wkWait", "done"} /\ call.method = "getCapabilitiesForDomain"
               /\ base.ok
            THEN <<base.url>> ELSE <<>>)

OwnResult(call) ==
    LET base == getWellKnownBaseUrl(call.domainName, call.srvResult) IN
    IF call.pc # "done" \/ call.method = "locateServices" THEN NoResult
    ELSE IF ~base.ok THEN Thrown(base.error)
    ELSE IF call.wkResponse.kind = "throw" THEN Thrown(call.wkResponse.error)
    ELSE CheckDocument(call.wkResponse.document)

\* C20: in any interleaving of concurrent locateServices and
\* getCapabilitiesForDomain calls, each call that started issued its own
\* query (also when another call asked for the same domain) and, past the
\* lookup, its own well-known GET; what it settled with is determined by
\* the replies to its own requests and by the draws it consumed; and the
\* draws of a call are adjacent in the sequence of draws of the shared
\* random source.
CallsShareNothingButDraws ==
    \A c \in Calls :
        LET call == calls[c] IN
        /\ call.pc # "idle" =>
              /\ call.gets = OwnRequests(call)
              /\ OwnLookup(call) = {call.srvResult}
              /\ call.result = OwnResult(call)
        /\ Cardinality(DrawPositions(c)) = Len(call.draws)
        /\ Contiguous(DrawPositions(c))

\* C20, its case: two calls for the same domain were in flight together,
\* the reply to the later call came first and its ordering read the random
\* source twice, then the earlier call read it twice; both issued their own
\* query and they settled differently.
InterleavedCallsOfOneDomain ==
    /\ calls[1].domainName = calls[2].domainName
    /\ calls[1].pc = "done" /\ calls[2].pc = "done"
    /\ randomLog = <<2, 2, 1, 1>>
    /\ calls[1].gets[1] = calls[2].gets[1]
    /\ calls[1].srvResult # calls[2].srvResult
    /\ calls[1].method = "getCapabilitiesForDomain"
    /\ calls[1].result.kind = "capabilities"

----------------------------------------------------------------------------
(* Properties of the records admitted to the ordering *)

\* C21: every record deserialised from a retained Answer entry has a
\* priority and a weight in 0..65535; no record with a priority or weight
\* outside that range reaches the ordering.
AdmittedFieldsAre16Bit ==
    AnswerReached =>
        LET retained == RetainedAnswers IN
        \A i \in 1..Len(retained) :
            retained[i].ok =>
                /\ retained[i].record.priority \in 0..65535
                /\ retained[i].record.weight \in 0..65535

\* C27: a DohSrvResolver never hands getWellKnownBaseUrl a response with
\* an empty services list, and getCapabilitiesForDomain over it ends with a
\* capability map or with one of the library's error classes.
FirstServiceAlwaysPresent ==
    resolverKind = "doh" =>
        /\ srvResult.kind = "response" => srvResult.services # <<>>
        /\ pc = "done" =>
              \/ result.kind = "capabilities"
              \/ /\ result.kind = "throw"
                 /\ result.error.name \in BsvAliasClientErrors

\* C29: a well-known GET issued after a response with isDomainSecure =
\* false goes to the queried domain or www.<domain> (one trailing dot
\* ignored), host and port being those of the first service of the
\* response, whatever the port.
UnauthenticatedResponseSetsPortOnly ==
    (srvResult.kind = "response" /\ ~srvResult.isDomainSecure) =>
        \A i \in 1..Len(WellKnownGets) :
            LET url == WellKnownGets[i] IN
            /\ OwnHost(UrlHost(url))
            /\ srvResult.services # <<>>
            /\ UrlHost(url) = srvResult.services[1].host
            /\ ParseInt(UrlPort(url)) = Num(srvResult.services[1].port)

\* C29, its case: the unauthenticated response of a DohSrvResolver names
\* the queried domain with a port other than 443, and the document is
\* asked for at that port.
FetchedAtUnauthenticatedPort ==
    /\ resolverKind = "doh"
    /\ pc = "wkWait"
    /\ srvResult.kind = "response"
    /\ ~srvResult.isDomainSecure
    /\ Len(WellKnownGets) = 1
    /\ srvResult.services[1].port = 8443
    /\ UrlPort(WellKnownGets[1]) = <<"8", "4", "4", "3">>

\* C28: the ordering of every set of records that deserialise selects a
\* record in each round, so that the call returns, and the services are the
\* records of a target other than ".", each exactly once.
OrderingSelectsEveryRecord ==
    AnswerReached =>
        LET retained == RetainedAnswers
            records == RecordsOf(retained)
        IN  OrderingReached(retained) =>
                /\ srvResult.kind = "response"
                /\ IsPermutation(srvResult.services,
                                 ServicesOf(OrdinaryRecords(records)))

----------------------------------------------------------------------------
(* Properties of PaymentsClient and PkiClient *)

PostEvents == SelectSeq(events, LAMBDA event : event.kind = "post")

DataKeys(data) == {field[1] : field \in data}

\* The body of the last reply the call received.
LastReply == events[Len(events)].data

\* The first resolution of initiatePayment found the P2P payment
\* destination capability supported.
P2pPathChosen ==
    /\ clientCall.method = "initiatePayment"
    /\ Len(lookups) >= 1
    /\ isCapabilitySupportedForDomain(lookups[1], P2P_PAYMENT_DESTINATION_BRFC)
           = SupportedIs(TRUE)

\* getBasicPaymentDestination ran, by itself or on behalf of
\* initiatePayment, until its resolution settled.
BasicPathResolved ==
    \/ clientCall.method = "getBasicPaymentDestination" /\ Len(lookups) = 1
    \/ /\ clientCall.method = "initiatePayment"
       /\ Len(lookups) = 2
       /\ isCapabilitySupportedForDomain(lookups[1], P2P_PAYMENT_DESTINATION_BRFC)
              = SupportedIs(FALSE)

\* C22: an intent returned by initiatePayment carries the handle and the
\* sender of the call, whose parameters were valid; if the P2P payment
\* destination capability was found supported, its reference and outputs
\* are those of the reply of the P2P endpoint, which was the one request
\* sent; otherwise it has no reference and one output, of the satoshis
\* asked for and the output of the reply of the basic endpoint.
InitiatePaymentReturnsIntent ==
    (clientPc = "done" /\ clientCall.method = "initiatePayment"
        /\ clientResult.kind = "intent") =>
        LET intent == clientResult.intent IN
        /\ checkInitiatePaymentParams(clientCall.handle, clientCall.satoshis,
                                      clientCall.sender) = NoError
        /\ intent.handle = clientCall.handle
        /\ intent.sender = clientCall.sender
        /\ Len(PostEvents) = 1
        /\ IF P2pPathChosen
           THEN /\ LastReply = {<<"reference", intent.reference>>,
                                 <<"outputs", intent.outputs>>}
                /\ DataKeys(PostEvents[1].data) = {"satoshis"}
           ELSE /\ intent.reference = JsUndefined
                /\ intent.outputs.present
                /\ Len(intent.outputs.list) = 1
                /\ intent.outputs.list[1].satoshis = clientCall.satoshis
                /\ LastReply = {<<"output", intent.outputs.list[1].script>>}
                /\ "amount" \in DataKeys(PostEvents[1].data)

\* C22, its case: initiatePayment returned the intent of the P2P path, with
\* the reference and the two outputs of the reply.
IntentOfP2pPath ==
    /\ clientPc = "done"
    /\ clientCall.method = "initiatePayment"
    /\ clientResult.kind = "intent"
    /\ P2pPathChosen
    /\ clientResult.intent.reference = JsString(<<"ref-1">>)
    /\ Len(clientResult.intent.outputs.list) = 2
    /\ clientResult.intent.sender = clientCall.sender

\* The map getBasicPaymentDestination read requires sender validation.
SenderValidationRequired(settled) ==
    /\ settled.kind = "capabilities"
    /\ ~settled.capabilities.isNull
    /\ GetProperty(settled.capabilities, SENDER_VALIDATION_BRFC) = JsBoolean(TRUE)

BasicCapabilityIsString(settled) ==
    GetProperty(settled.capabilities, BASIC_PAYMENT_RESOLUTION_BRFC).type = "string"

SignatureRequiredError ==
    Error("BsvAliasClientConfigurationError",
          <<"Signature is required before sending the request">>)

\* Every POST of a sender with a key store carries signature and pubkey.
KeyStorePostIsSigned ==
    (BasicPathResolved /\ clientCall.sender.keyStore) =>
        \A i \in 1..Len(PostEvents) :
            {"signature", "pubkey"} \subseteq DataKeys(PostEvents[i].data)

\* C23, as stated: on the basic path, a map with sender validation true
\* and a sender without key store make the call fail with 'Signature is
\* required before sending the request', no POST being sent.
SignatureRequiredWheneverValidated ==
    /\ (BasicPathResolved /\ SenderValidationRequired(lookups[Len(lookups)])
            /\ ~clientCall.sender.keyStore) =>
           /\ clientPc = "done"
           /\ clientResult = ClientThrown(SignatureRequiredError)
           /\ PostEvents = <<>>
    /\ KeyStorePostIsSigned

\* C23: on the basic path, a map with sender validation true and a sender
\* without key store make the call fail without any POST, and with
\* 'Signature is required before sending the request' if the map has the
\* basic payment destination capability as a string; every POST of a
\* sender with a key store carries signature and pubkey.
SignatureRequiredOrSent ==
    /\ (BasicPathResolved /\ SenderValidationRequired(lookups[Len(lookups)])
            /\ ~clientCall.sender.keyStore) =>
           /\ clientPc = "done"
           /\ clientResult.kind = "throw"
           /\ PostEvents = <<>>
           /\ BasicCapabilityIsString(lookups[Len(lookups)]) =>
                  clientResult = ClientThrown(SignatureRequiredError)
    /\ KeyStorePostIsSigned

\* C23, its case: initiatePayment took the basic path for a sender without
\* key store, the map required sender validation, and the call failed for
\* the missing signature before any POST.
SignatureRefused ==
    /\ BasicPathResolved
    /\ clientCall.method = "initiatePayment"
    /\ SenderValidationRequired(lookups[2])
    /\ ~clientCall.sender.keyStore
    /\ clientResult = ClientThrown(SignatureRequiredError)
    /\ PostEvents = <<>>

\* The value of a field of a body.
DataValue(data, key) ==
    IF key \in DataKeys(data)
    THEN (CHOOSE field \in data : field[1] = key)[2]
    ELSE JsUndefined

\* C24: when the reply echoes the handle and the public key of the call,
\* verifyPublickeyOwner returns true for match = true and false for
\* match = false.
VerifyReturnsMatch ==
    (clientPc = "done" /\ clientCall.method = "verifyPublickeyOwner"
        /\ events[Len(events)].kind = "reply") =>
        LET match == DataValue(LastReply, "match") IN
        (/\ DataValue(LastReply, "handle") = clientCall.handle
         /\ DataValue(LastReply, "pubkey") = JsString(clientCall.publicKey)
         /\ match \in {JsBoolean(TRUE), JsBoolean(FALSE)}) =>
            clientResult = ClientReturned("match", NoPaymentIntent, NoOutput, match)

\* The capability an operation reads from the map of its resolution.
NeededCapability ==
    IF clientCall.method = "verifyPublickeyOwner" THEN VERIFY_PUBLIC_KEY_OWNER_BRFC
    ELSE IF P2pPathChosen THEN P2P_PAYMENT_DESTINATION_BRFC
    ELSE BASIC_PAYMENT_RESOLUTION_BRFC

\* The resolution of getBasicPaymentDestination, initiateP2pPayment or
\* verifyPublickeyOwner gave a capability map.
OperationMapRead ==
    /\ \/ clientCall.method \in {"getBasicPaymentDestination", "verifyPublickeyOwner"}
          /\ Len(lookups) = 1
       \/ clientCall.method = "initiatePayment" /\ Len(lookups) = 2
    /\ lookups[Len(lookups)].kind = "capabilities"
    /\ ~lookups[Len(lookups)].capabilities.isNull

EndpointRequests == SelectSeq(events, LAMBDA event : event.kind \in {"get", "post"})

\* C25: an operation whose map lacks the capability it needs fails with
\* BsvAliasCapabilityNotSupportedError without a request to an endpoint,
\* and 'Capability information must be a string' is thrown only for a
\* capability that is present.
MissingCapabilityIsNotSupported ==
    OperationMapRead =>
        LET capabilities == lookups[Len(lookups)].capabilities
            present == \E entry \in capabilities.entries : entry[1] = NeededCapability
        IN /\ ~present =>
                 /\ clientPc = "done"
                 /\ clientResult.kind = "throw"
                 /\ clientResult.error.name = "BsvAliasCapabilityNotSupportedError"
                 /\ EndpointRequests = <<>>
           /\ clientResult
                  = ClientThrown(Error("BsvAliasUnexpectedServerResponseError",
                                       <<"Capability information must be a string">>))
                  => /\ present
                     /\ GetProperty(capabilities, NeededCapability).type # "string"

\* The kinds of the events of a call of confirmPayment, in their order.
ConfirmPaymentSteps ==
    <<"submitTransaction", "reply", "getCapabilitiesForDomain", "post", "reply">>

\* C26: confirmPayment with invalid parameters fails with nothing sent;
\* otherwise the broadcast comes first, the resolution and the POST to the
\* P2P endpoint follow its reply in that order and only for an intent with
\* a reference (without one the call returns), the POST carries the
\* transaction and the reference, a returned txid is the one of the
\* broadcast, and a call that fails later leaves the broadcast as it was.
ConfirmPaymentInOrder ==
    clientCall.method = "confirmPayment" =>
        LET intent == clientCall.paymentIntent
            e == checkConfirmPaymentParams(intent, clientCall.mapiClient,
                                           clientCall.rawTx)
        IN /\ e # NoError =>
                 /\ events = <<>>
                 /\ clientPc = "done"
                 /\ clientResult = ClientThrown(e)
           /\ e = NoError =>
                 /\ Len(events) \in 1..Len(ConfirmPaymentSteps)
                 /\ \A i \in 1..Len(events) : events[i].kind = ConfirmPaymentSteps[i]
                 /\ events[1].data = {<<"rawTx", clientCall.rawTx>>}
                 /\ Len(events) > 2 => intent.reference # JsUndefined
                 /\ (clientPc = "done" /\ Len(events) = 2
                         /\ intent.reference = JsUndefined) =>
                        clientResult.kind = "txid"
                 /\ Len(events) >= 4 =>
                        /\ DataValue(events[4].data, "hex") = clientCall.rawTx
                        /\ DataValue(events[4].data, "reference") = intent.reference
                 /\ clientResult.kind = "txid" =>
                        /\ clientPc = "done"
                        /\ clientResult.value = DataValue(events[2].data, "txid")
                        /\ Len(events) = IF intent.reference = JsUndefined THEN 2 ELSE 5
                 /\ clientPc = "done" => clientResult.kind \in {"txid", "throw"}

\* C26, its case: the transaction was broadcast and notified, the P2P
\* endpoint answered with another txid, and the txid of the broadcast
\* was returned.
BroadcastThenNotified ==
    /\ clientCall.method = "confirmPayment"
    /\ clientPc = "done"
    /\ Len(events) = 5
    /\ DataValue(events[5].data, "txid") = JsString(<<"other txid">>)
    /\ DataKeys(events[4].data)
           = {"hex", "reference", "metadata.sender", "metadata.pubkey", "metadata.signature"}
    /\ clientResult
           = ClientReturned("txid", NoPaymentIntent, NoOutput, JsString(<<"txid-1">>))

\* C30: the POST of initiatePayment is built from the capability map that
\* decided the path, and the map initiateP2pPayment reads on the P2P path
\* has the P2P payment destination capability.
DestinationMapIsPathMap ==
    (clientCall.method = "initiatePayment" /\ Len(lookups) = 2
        /\ lookups[2].kind = "capabilities") =>
        /\ PostEvents # <<>> => lookups[2].capabilities = lookups[1].capabilities
        /\ P2pPathChosen =>
               /\ ~lookups[2].capabilities.isNull
               /\ IsDefinedProperty(lookups[2].capabilities, P2P_PAYMENT_DESTINATION_BRFC)

====
